---------------------------- MODULE Spec2Model ----------------------------
(***************************************************************************)
(* A model of ecoute: the raw-PCM sample operations of src/audioop.py, the  *)
(* AIFF reader and writer of src/aifc.py, the transcriber of the web       *)
(* application (src/web_app.py) and the desktop client                     *)
(* (src/client_app.py).  Byte buffers are sequences of integers 0..255,    *)
(* Python integers are TLA+ integers, Python floats are IEEE-754 doubles   *)
(* kept as sign, 53-bit mantissa and exponent, and a call either returns a *)
(* value or raises an exception, which the result record names.            *)
(***************************************************************************)
EXTENDS Integers, Sequences, FiniteSets

(***************************************************************************)
(* Bounds of the model.                                                    *)
(***************************************************************************)
\* Longest byte buffer drawn exhaustively over ByteVals.
MaxLen == 3

\* Longest sample sequence handed to _samples_to_bytes.
MaxSamples == 2

\* Longest input given to the aifc reader, and most writeframes calls made
\* on a writer.
MaxInput == 68

MaxWrites == 2

\* Longest stream on which a close that has raised is called again (each
\* such close may add the bytes of a header to the stream).
MaxStream == 30

\* Most temporary files kept on the disk of the server, and most entries of
\* a transcript.
MaxTempFiles == 3

MaxTranscript == 2

\* Most callbacks queued for the main thread of the client, and most
\* chunks in its audio queue.
MaxEvents == 2

MaxQueue == 3

\* Deepest nesting of calls the interpreter allows before it raises
\* RecursionError.
RecursionLimit == 4

(***************************************************************************)
(* Small integer helpers.                                                  *)
(***************************************************************************)
Min(a, b) == IF a <= b THEN a ELSE b

Max(a, b) == IF a >= b THEN a ELSE b

Abs(a) == IF a < 0 THEN 0 - a ELSE a

RECURSIVE Pow2(_)
Pow2(n) == IF n = 0 THEN 1 ELSE 2 * Pow2(n - 1)

\* Number of bits of a natural number below 2^31 (0 for 0).
RECURSIVE NatBitLen(_)
NatBitLen(n) == IF n = 0 THEN 0 ELSE 1 + NatBitLen(n \div 2)

\* A Python list: the elements of f, a function on 1..n, all evaluated.
List(f) == SubSeq(f, 1, Len(f))

(***************************************************************************)
(* Natural numbers of any size, as little-endian sequences of limbs in     *)
(* base 2^15 with no leading zero limb (zero is the empty sequence).  They *)
(* carry the 53-bit mantissas of Python's floats, which do not fit the     *)
(* model checker's integers.                                               *)
(***************************************************************************)
LimbBits == 15

Base == 32768

RECURSIVE BNorm(_)
BNorm(a) ==
    IF a = <<>> THEN <<>>
    ELSE IF a[Len(a)] = 0 THEN BNorm(SubSeq(a, 1, Len(a) - 1))
    ELSE a

RECURSIVE BFromNat(_)
BFromNat(n) == IF n = 0 THEN <<>> ELSE <<n % Base>> \o BFromNat(n \div Base)

\* The value of a bignum known to be below 2^31.
RECURSIVE BToNat(_)
BToNat(a) == IF a = <<>> THEN 0 ELSE a[1] + Base * BToNat(Tail(a))

BLimb(a, i) == IF i <= Len(a) THEN a[i] ELSE 0

RECURSIVE BCmpFrom(_, _, _)
BCmpFrom(a, b, i) ==
    IF i = 0 THEN 0
    ELSE IF a[i] < b[i] THEN -1
    ELSE IF a[i] > b[i] THEN 1
    ELSE BCmpFrom(a, b, i - 1)

\* -1, 0 or 1 as a < b, a = b, a > b.
BCmp(a, b) ==
    IF Len(a) < Len(b) THEN -1
    ELSE IF Len(a) > Len(b) THEN 1
    ELSE BCmpFrom(a, b, Len(a))

RECURSIVE BAddFrom(_, _, _, _)
BAddFrom(a, b, i, carry) ==
    IF i > Len(a) /\ i > Len(b)
    THEN (IF carry = 0 THEN <<>> ELSE <<carry>>)
    ELSE LET s == BLimb(a, i) + BLimb(b, i) + carry
         IN  <<s % Base>> \o BAddFrom(a, b, i + 1, s \div Base)

BAdd(a, b) ==
    IF a = <<>> THEN b ELSE IF b = <<>> THEN a ELSE BAddFrom(a, b, 1, 0)

RECURSIVE BSubFrom(_, _, _, _)
BSubFrom(a, b, i, borrow) ==
    IF i > Len(a) THEN <<>>
    ELSE LET s == a[i] - BLimb(b, i) - borrow
         IN  IF s < 0 THEN <<s + Base>> \o BSubFrom(a, b, i + 1, 1)
             ELSE <<s>> \o BSubFrom(a, b, i + 1, 0)

\* a - b for a >= b.
BSub(a, b) == IF b = <<>> THEN a ELSE BNorm(BSubFrom(a, b, 1, 0))

RECURSIVE BMulSmallFrom(_, _, _, _)
BMulSmallFrom(a, k, i, carry) ==
    IF i > Len(a) THEN (IF carry = 0 THEN <<>> ELSE <<carry>>)
    ELSE LET s == a[i] * k + carry
         IN  <<s % Base>> \o BMulSmallFrom(a, k, i + 1, s \div Base)

\* a * k for 0 <= k < Base.
BMulSmall(a, k) == IF k = 0 \/ a = <<>> THEN <<>> ELSE BMulSmallFrom(a, k, 1, 0)

BShlLimbs(a, n) == IF a = <<>> THEN <<>> ELSE [i \in 1..n |-> 0] \o a

RECURSIVE BMulFrom(_, _, _)
BMulFrom(a, b, i) ==
    IF i > Len(b) THEN <<>>
    ELSE BAdd(BShlLimbs(BMulSmall(a, b[i]), i - 1), BMulFrom(a, b, i + 1))

BMul(a, b) == IF a = <<>> \/ b = <<>> THEN <<>> ELSE BMulFrom(a, b, 1)

\* a * 2^k.
BShl(a, k) ==
    IF a = <<>> \/ k = 0 THEN a
    ELSE BShlLimbs(BMulSmall(a, Pow2(k % LimbBits)), k \div LimbBits)

RECURSIVE BDivSmallFrom(_, _, _, _)
BDivSmallFrom(a, k, i, rem) ==
    IF i = 0 THEN <<>>
    ELSE LET cur == rem * Base + a[i]
         IN  BDivSmallFrom(a, k, i - 1, cur % k) \o <<cur \div k>>

\* floor(a / k) for 0 < k <= Base.
BDivSmall(a, k) ==
    IF a = <<>> \/ k = 1 THEN a ELSE BNorm(BDivSmallFrom(a, k, Len(a), 0))

\* floor(a / 2^k).
BShr(a, k) ==
    LET drop == k \div LimbBits
    IN  IF drop >= Len(a) THEN <<>>
        ELSE BDivSmall(SubSeq(a, drop + 1, Len(a)), Pow2(k % LimbBits))

\* a mod 2^k.
BLowBits(a, k) ==
    LET full == k \div LimbBits
        part == k % LimbBits
    IN  IF full >= Len(a) THEN a
        ELSE BNorm(SubSeq(a, 1, full) \o <<a[full + 1] % Pow2(part)>>)

BBitLen(a) ==
    IF a = <<>> THEN 0 ELSE LimbBits * (Len(a) - 1) + NatBitLen(a[Len(a)])

BIsOdd(a) == a # <<>> /\ a[1] % 2 = 1

\* Bits dropped from a dividend and a divisor to estimate a quotient limb in
\* machine integers: the divisors have 53 or 54 bits.
DivShift == 38

\* Raises an under-estimated quotient limb q, of remainder rem, to the true one.
RECURSIVE BDivFix(_, _, _)
BDivFix(q, rem, d) ==
    IF BCmp(rem, d) >= 0 THEN BDivFix(q + 1, BSub(rem, d), d) ELSE <<q, rem>>

\* <<floor(n / d), n mod d>> from the estimate est <= floor(n / d).
BDivTry(n, d, est) ==
    IF est = 0 THEN BDivFix(0, n, d)
    ELSE BDivFix(est, BSub(n, BMulSmall(d, est)), d)

\* One limb of long division, for r < d and dtop = floor(d / 2^38):
\* <<floor(r * 2^15 / d), (r * 2^15) mod d>>, the quotient an integer.
BDivLimb(r, d, dtop) ==
    BDivTry(BShlLimbs(r, 1), d, BToNat(BShr(BShlLimbs(r, 1), DivShift)) \div (dtop + 1))

\* The quotient limb q set above the lower limbs of rest = <<limbs, remainder>>.
BDivJoin(q, rest) == <<rest[1] \o <<q>>, rest[2]>>

\* n limbs of quotient, lowest first, and the remainder, for r < d:
\* <<floor(r * 2^(15 * n) / d), (r * 2^(15 * n)) mod d>>.  A zero remainder
\* leaves zero limbs.
RECURSIVE BDivLimbs(_, _, _, _)
BDivNext(s, d, dtop, n) == BDivJoin(s[1], BDivLimbs(s[2], d, dtop, n - 1))

BDivLimbs(r, d, dtop, n) ==
    IF n = 0 THEN <<<<>>, r>>
    ELSE IF r = <<>> THEN <<[i \in 1..n |-> 0], <<>>>>
    ELSE BDivNext(BDivLimb(r, d, dtop), d, dtop, n)

\* The quotient without leading zero limbs.
BDivNorm(qr) == <<BNorm(qr[1]), qr[2]>>

\* Four limbs of quotient: <<floor(r * 2^60 / d), remainder>> for r < d.
BDiv60(r, d) == BDivNorm(BDivLimbs(r, d, BToNat(BShr(d, DivShift)), 4))

(***************************************************************************)
(* Python floats: IEEE-754 doubles, round to nearest, ties to even.  A     *)
(* float is [neg, m, e] of value (-1)^neg * m * 2^e with m a bignum of     *)
(* exactly 53 bits, or the zero float with m = <<>>.  Only the operations  *)
(* ratecv uses are modelled; values stay far from overflow and underflow.  *)
(***************************************************************************)
MantBits == 53

FZero == [neg |-> FALSE, m |-> <<>>, e |-> 0]

\* The float of mantissa m1, which rounding up may have carried to 54 bits.
FCarry(neg, m1, E) ==
    IF BBitLen(m1) > MantBits THEN [neg |-> neg, m |-> BShr(m1, 1), e |-> E + 1]
    ELSE [neg |-> neg, m |-> m1, e |-> E]

\* Rounds the 53 bits kept, given how the bits cut compare to one half (c).
FRoundHalf(neg, kept, c, E, sticky) ==
    IF c > 0 \/ (c = 0 /\ (sticky \/ BIsOdd(kept)))
    THEN FCarry(neg, BAdd(kept, <<1>>), E)
    ELSE [neg |-> neg, m |-> kept, e |-> E]

\* FRound for M # 0 of L bits.
FRoundBits(neg, M, E, sticky, L) ==
    IF L <= MantBits
    THEN [neg |-> neg, m |-> BShl(M, MantBits - L), e |-> E - (MantBits - L)]
    ELSE FRoundHalf(neg, BShr(M, L - MantBits),
                    BCmp(BLowBits(M, L - MantBits), BShl(<<1>>, L - MantBits - 1)),
                    E + (L - MantBits), sticky)

\* The double nearest to (-1)^neg * (M + s) * 2^E, where 0 <= s < 1 and
\* sticky says s > 0 (a division's remainder); M has more than 53 bits
\* whenever sticky holds.
FRound(neg, M, E, sticky) ==
    IF M = <<>> THEN FZero ELSE FRoundBits(neg, M, E, sticky, BBitLen(M))

\* float(n) for an integer n.
FFromInt(n) == FRound(n < 0, BFromNat(Abs(n)), 0, FALSE)

\* x * y.
FMul(x, y) ==
    IF x.m = <<>> \/ y.m = <<>> THEN FZero
    ELSE FRound(x.neg # y.neg, BMul(x.m, y.m), x.e + y.e, FALSE)

\* Quotient bits computed before rounding (four limbs), more than the
\* mantissa's, so that the remainder only breaks ties.
DivBits == 60

\* Rounds the quotient and remainder qr of a division.
FDivRound(neg, qr, E) == FRound(neg, qr[1], E, qr[2] # <<>>)

\* x / y for y # 0: the divisor is doubled when its mantissa is not the larger.
FDiv(x, y) ==
    IF x.m = <<>> \/ y.m = <<>> THEN FZero
    ELSE IF BCmp(x.m, y.m) >= 0
    THEN FDivRound(x.neg # y.neg, BDiv60(x.m, BMulSmall(y.m, 2)),
                   x.e - y.e - DivBits + 1)
    ELSE FDivRound(x.neg # y.neg, BDiv60(x.m, y.m), x.e - y.e - DivBits)

\* x + y for nonzero x and y of mantissas mx and my at the common exponent e.
FAddAligned(x, y, mx, my, e) ==
    IF x.neg = y.neg THEN FRound(x.neg, BAdd(mx, my), e, FALSE)
    ELSE IF BCmp(mx, my) = 0 THEN FZero
    ELSE IF BCmp(mx, my) > 0 THEN FRound(x.neg, BSub(mx, my), e, FALSE)
    ELSE FRound(y.neg, BSub(my, mx), e, FALSE)

FAddAt(x, y, e) == FAddAligned(x, y, BShl(x.m, x.e - e), BShl(y.m, y.e - e), e)

\* x + y.
FAdd(x, y) ==
    IF x.m = <<>> THEN y
    ELSE IF y.m = <<>> THEN x
    ELSE FAddAt(x, y, Min(x.e, y.e))

\* x - y.
FSub(x, y) == IF y.m = <<>> THEN x ELSE FAdd(x, [y EXCEPT !.neg = ~y.neg])

\* floor(|x|) for x # 0 and |x| < 2^31.
FTruncMag(x) ==
    IF x.e >= 0 THEN BToNat(BShl(x.m, x.e)) ELSE BToNat(BShr(x.m, 0 - x.e))

\* int(x): truncation toward zero, for |x| < 2^31.
FTrunc(x) ==
    IF x.m = <<>> THEN 0
    ELSE IF x.neg THEN 0 - FTruncMag(x) ELSE FTruncMag(x)

\* Hexadecimal digits of the square root computed before rounding: 56 bits,
\* more than the mantissa's.
SqrtDigits == 14

\* The next hexadecimal digit of a square root: how many multiples d of unit
\* keep (r + d * unit)^2 within M.
BSqrtDigit(M, r, unit) ==
    Cardinality({d \in 1..15 :
                    BCmp(BMul(BAdd(r, BMulSmall(unit, d)),
                              BAdd(r, BMulSmall(unit, d))), M) <= 0})

\* floor(sqrt(M)), given its digits above digit i in r.
RECURSIVE BSqrtFrom(_, _, _)
BSqrtFrom(M, r, i) ==
    IF i = 0 THEN r
    ELSE BSqrtFrom(M, BAdd(r, BMulSmall(BShl(<<1>>, 4 * (i - 1)),
                                        BSqrtDigit(M, r, BShl(<<1>>, 4 * (i - 1))))),
                   i - 1)

\* Rounds the root r of M * 2^(2 * E): inexact when r * r is not M.
FSqrtRound(M, r, E) == FRound(FALSE, r, E, BCmp(BMul(r, r), M) # 0)

\* The root of the mantissa M (107 or 108 bits) at the even exponent 2 * E.
FSqrtAt(M, E) == FSqrtRound(M, BSqrtFrom(M, <<>>, SqrtDigits), E)

\* x ** 0.5 for x >= 0: the correctly rounded square root.
FSqrt(x) ==
    IF x.m = <<>> THEN FZero
    ELSE IF x.e % 2 = 0 THEN FSqrtAt(BShl(x.m, 54), (x.e - 54) \div 2)
    ELSE FSqrtAt(BShl(x.m, 55), (x.e - 55) \div 2)

\* Fraction bits of an integer quotient computed before rounding.
QuotBits == 60

\* Rounds the quotient q of S * 2^QuotBits by n: inexact when q * n is not it.
FIntDivRound(S, n, q) ==
    FRound(FALSE, q, 0 - QuotBits, BCmp(BMulSmall(q, n), BShl(S, QuotBits)) # 0)

\* S / n for a natural number S and 0 < n <= Base: Python's true division of
\* integers, the double nearest to the exact quotient.
FIntDiv(S, n) ==
    IF S = <<>> THEN FZero
    ELSE FIntDivRound(S, n, BDivSmall(BShl(S, QuotBits), n))

(***************************************************************************)
(* The outcome of a call: the value returned, or the exception raised.     *)
(* audioop.error is the module's one error class; its message tells an     *)
(* unsupported width from a length mismatch.  struct.error, KeyError,      *)
(* ValueError and ZeroDivisionError are the exceptions the library raises  *)
(* from inside the operations.                                             *)
(***************************************************************************)
Ok(v) == [exc |-> "none", msg |-> "", val |-> v]

Raise(exc, msg) == [exc |-> exc, msg |-> msg, val |-> <<>>]

UnsupportedWidthMsg == "Unsupported sample width"

StereoLengthMsg == "Data length not compatible with stereo format"

(***************************************************************************)
(* struct.pack and struct.unpack with the little-endian formats 'B', 'h'   *)
(* and 'i'.                                                                *)
(***************************************************************************)
\* The unsigned value of little-endian bytes b[from .. from + size - 1].
RECURSIVE UnsignedLE(_, _, _)
UnsignedLE(b, from, size) ==
    IF size = 1 THEN b[from]
    ELSE b[from] + 256 * UnsignedLE(b, from + 1, size - 1)

\* The two's-complement value of the same bytes: the top byte carries the sign.
SignedLE(b, from, size) ==
    LET top == b[from + size - 1]
        hi  == IF top >= 128 THEN top - 256 ELSE top
    IN  IF size = 1 THEN hi
        ELSE UnsignedLE(b, from, size - 1) + Pow2(8 * (size - 1)) * hi

\* struct.unpack('<' + fmt * count, data): count values of `size` bytes
\* each; the buffer must hold exactly count * size bytes.
StructUnpack(data, size, count, signed) ==
    IF Len(data) # size * count
    THEN Raise("struct.error", "unpack requires a buffer of N bytes")
    ELSE Ok(List([k \in 1..count |->
                    IF signed THEN SignedLE(data, (k - 1) * size + 1, size)
                    ELSE UnsignedLE(data, (k - 1) * size + 1, size)]))

\* Byte k (1 = lowest) of the two's-complement little-endian form of v.
ByteOf(v, k) == (v \div Pow2(8 * (k - 1))) % 256

\* struct.pack('<' + fmt * len(values), *values) for values in range.
StructPack(values, size) ==
    IF values = <<>> THEN <<>>
    ELSE
    List([j \in 1..(Len(values) * size) |->
             ByteOf(values[((j - 1) \div size) + 1], ((j - 1) % size) + 1)])

Clamp(lo, hi, s) == Max(lo, Min(hi, s))

Int16Min == -32768

Int16Max == 32767

Int32Max == 2147483647

Int32Min == (0 - Int32Max) - 1

(***************************************************************************)
(* _get_samples and _samples_to_bytes.                                     *)
(***************************************************************************)
get_samples(data, width) ==
    IF width = 1 THEN StructUnpack(data, 1, Len(data), FALSE)
    ELSE IF width = 2 THEN StructUnpack(data, 2, Len(data) \div 2, TRUE)
    ELSE IF width = 4 THEN StructUnpack(data, 4, Len(data) \div 4, TRUE)
    ELSE Raise("audioop.error", UnsupportedWidthMsg)
\* A variant of _samples_to_bytes that packs width-1 samples without adding
\* 128 to them.
samples_to_bytes_unbiased(samples, width) ==
    IF width \notin {1, 2, 4} THEN Raise("audioop.error", UnsupportedWidthMsg)
    ELSE IF samples = <<>> THEN Ok(<<>>)
    ELSE IF width = 1
    THEN Ok(StructPack(List([k \in 1..Len(samples) |->
                                Clamp(0, 255, samples[k])]), 1))
    ELSE IF width = 2
    THEN Ok(StructPack(List([k \in 1..Len(samples) |->
                                Clamp(Int16Min, Int16Max, samples[k])]), 2))
    ELSE Ok(StructPack(List([k \in 1..Len(samples) |->
                                Clamp(Int32Min, Int32Max, samples[k])]), 4))

samples_to_bytes(samples, width) ==
    IF width \notin {1, 2, 4} THEN Raise("audioop.error", UnsupportedWidthMsg)
    ELSE IF samples = <<>> THEN Ok(<<>>)
    ELSE IF width = 1
    THEN Ok(StructPack(List([k \in 1..Len(samples) |->
                                Clamp(0, 255, samples[k] + 128)]), 1))
    ELSE IF width = 2
    THEN Ok(StructPack(List([k \in 1..Len(samples) |->
                                Clamp(Int16Min, Int16Max, samples[k])]), 2))
    ELSE Ok(StructPack(List([k \in 1..Len(samples) |->
                                Clamp(Int32Min, Int32Max, samples[k])]), 4))

\* The `samples = [s - 128 for s in samples]` every operation applies to
\* width-1 samples before arithmetic.
Unbias(samples, width) ==
    IF width = 1 THEN List([k \in 1..Len(samples) |-> samples[k] - 128]) ELSE samples

(***************************************************************************)
(* The operations of audioop.py.                                           *)
(***************************************************************************)
\* int(x / d) for integers x and d > 0: Python's true division of integers
\* below 2^53 by a power of two is exact, and int() truncates toward zero.
TruncDiv(x, d) == IF x >= 0 THEN x \div d ELSE (x + d - 1) \div d

\* sum(s * s for s in samples) over the first k samples, of any size.
RECURSIVE SumSquares(_, _)
SumSquares(samples, k) ==
    IF k = 0 THEN <<>>
    ELSE BAdd(BMul(BFromNat(Abs(samples[k])), BFromNat(Abs(samples[k]))),
              SumSquares(samples, k - 1))

\* int((sum_squares / len(samples)) ** 0.5) in float arithmetic.
rms_of(samples) ==
    FTrunc(FSqrt(FIntDiv(SumSquares(samples, Len(samples)), Len(samples))))

rms_decoded(got, width) ==
    IF got.exc # "none" THEN got ELSE Ok(rms_of(Unbias(got.val, width)))

rms(data, width) ==
    IF Len(data) = 0 THEN Ok(0) ELSE rms_decoded(get_samples(data, width), width)

\* A variant of add whose sums wrap around the range of widths 1 and 2
\* instead of saturating.
add_wrapping(data1, data2, width) ==
    LET min_len == Min(Len(data1), Len(data2))
        got1    == get_samples(SubSeq(data1, 1, min_len), width)
        got2    == get_samples(SubSeq(data2, 1, min_len), width)
        half    == IF width = 1 THEN 128 ELSE 32768
    IN  IF got1.exc # "none" THEN got1
        ELSE IF got2.exc # "none" THEN got2
        ELSE LET samples1 == Unbias(got1.val, width)
                 samples2 == Unbias(got2.val, width)
             IN  samples_to_bytes(
                     List([k \in 1..Min(Len(samples1), Len(samples2)) |->
                              IF width = 4 THEN samples1[k] + samples2[k]
                              ELSE ((samples1[k] + samples2[k] + half) % (2 * half)) - half]),
                     width)

add(data1, data2, width) ==
    LET min_len == Min(Len(data1), Len(data2))
        got1    == get_samples(SubSeq(data1, 1, min_len), width)
        got2    == get_samples(SubSeq(data2, 1, min_len), width)
    IN  IF got1.exc # "none" THEN got1
        ELSE IF got2.exc # "none" THEN got2
        ELSE LET samples1 == Unbias(got1.val, width)
                 samples2 == Unbias(got2.val, width)
             IN  samples_to_bytes(
                     List([k \in 1..Min(Len(samples1), Len(samples2)) |->
                              samples1[k] + samples2[k]]), width)

bias(data, width, bias_value) ==
    IF Len(data) = 0 THEN Ok(data)
    ELSE LET got == get_samples(data, width)
         IN  IF got.exc # "none" THEN got
             ELSE LET samples == Unbias(got.val, width)
                  IN  samples_to_bytes(
                          List([k \in 1..Len(samples) |-> samples[k] + bias_value]),
                          width)

\* A variant of byteswap that reverses only the whole samples and leaves the
\* trailing bytes of an incomplete sample out.
byteswap_whole(data, width) ==
    IF width = 1 THEN Ok(data)
    ELSE IF width = 0 THEN Raise("ValueError", "range() arg 3 must not be zero")
    ELSE IF width < 0 THEN Ok(<<>>)
    ELSE Ok(List([j \in 1..((Len(data) \div width) * width) |->
                    data[2 * (((j - 1) \div width) * width) + width + 1 - j]]))

\* range(0, len(data), width) raises ValueError for a zero step and is
\* empty for a negative one; the last slice may be shorter than width.
byteswap(data, width) ==
    IF width = 1 THEN Ok(data)
    ELSE IF width = 0 THEN Raise("ValueError", "range() arg 3 must not be zero")
    ELSE IF width < 0 THEN Ok(<<>>)
    ELSE Ok(List([j \in 1..Len(data) |->
                    LET start == ((j - 1) \div width) * width + 1
                        stop  == Min(start + width - 1, Len(data))
                    IN  data[start + stop - j]]))
\* A variant of the mix that halves with floor division instead of int().
tomono_sample_floor(data, width, left_gain, right_gain, at) ==
    LET left_raw     == IF width = 1 THEN UnsignedLE(data, at, 1)
                        ELSE SignedLE(data, at, width)
        right_raw    == IF width = 1 THEN UnsignedLE(data, at + width, 1)
                        ELSE SignedLE(data, at + width, width)
        left_sample  == IF width = 1 THEN left_raw - 128 ELSE left_raw
        right_sample == IF width = 1 THEN right_raw - 128 ELSE right_raw
        mono_sample  == (left_sample * left_gain + right_sample * right_gain) \div 2
    IN  IF width = 1 THEN Clamp(0, 255, mono_sample + 128)
        ELSE IF width = 2 THEN Clamp(Int16Min, Int16Max, mono_sample)
        ELSE Clamp(Int32Min, Int32Max, mono_sample)

\* One frame of tomono: the two samples at byte offset `at` (1-based).
tomono_sample(data, width, left_gain, right_gain, at) ==
    LET left_raw     == IF width = 1 THEN UnsignedLE(data, at, 1)
                        ELSE SignedLE(data, at, width)
        right_raw    == IF width = 1 THEN UnsignedLE(data, at + width, 1)
                        ELSE SignedLE(data, at + width, width)
        left_sample  == IF width = 1 THEN left_raw - 128 ELSE left_raw
        right_sample == IF width = 1 THEN right_raw - 128 ELSE right_raw
        mono_sample  == TruncDiv(left_sample * left_gain + right_sample * right_gain, 2)
    IN  IF width = 1 THEN Clamp(0, 255, mono_sample + 128)
        ELSE IF width = 2 THEN Clamp(Int16Min, Int16Max, mono_sample)
        ELSE Clamp(Int32Min, Int32Max, mono_sample)
\* A variant of tomono without the length check: it mixes the whole frames
\* the buffer holds.
tomono_unchecked(data, width, left_gain, right_gain) ==
    IF width = 0 THEN Raise("ZeroDivisionError", "integer modulo by zero")
    ELSE IF width \notin {1, 2, 4} THEN Raise("KeyError", "width")
    ELSE IF Len(data) < width * 2 THEN Ok(<<>>)
    ELSE Ok(StructPack(
               List([f \in 1..(Len(data) \div (width * 2)) |->
                        tomono_sample(data, width, left_gain, right_gain,
                                      (f - 1) * width * 2 + 1)]), width))

\* len(data) % (width * 2) raises for width 0, and is zero exactly when
\* |2 * width| divides the length; the format lookup raises KeyError.
tomono(data, width, left_gain, right_gain) ==
    IF width = 0 THEN Raise("ZeroDivisionError", "integer modulo by zero")
    ELSE IF Len(data) % Abs(width * 2) # 0 THEN Raise("audioop.error", StereoLengthMsg)
    ELSE IF width \notin {1, 2, 4} THEN Raise("KeyError", "width")
    ELSE Ok(StructPack(
               List([f \in 1..(Len(data) \div (width * 2)) |->
                        tomono_sample(data, width, left_gain, right_gain,
                                      (f - 1) * width * 2 + 1)]), width))

\* A variant of the scaling that rounds down instead of toward zero.
lin2lin_scale_floor(s, width, new_width) ==
    LET bits == 8 * (new_width - width)
    IN  IF bits >= 0 THEN s * Pow2(bits)
        ELSE s \div Pow2(0 - bits)

\* int(s * scale_factor) with scale_factor = 2^(8*new_width-1) / 2^(8*width-1),
\* a power of two: the product is exact and int() truncates toward zero.
lin2lin_scale(s, width, new_width) ==
    LET bits == 8 * (new_width - width)
    IN  IF bits >= 0 THEN s * Pow2(bits)
        ELSE IF 0 - bits >= 31 THEN 0
        ELSE TruncDiv(s, Pow2(0 - bits))

lin2lin(data, width, new_width) ==
    IF width = new_width THEN Ok(data)
    ELSE LET got == get_samples(data, width)
         IN  IF got.exc # "none" THEN got
             ELSE IF new_width \notin {1, 2, 4} THEN Raise("audioop.error", UnsupportedWidthMsg)
             ELSE LET samples == Unbias(got.val, width)
                  IN  samples_to_bytes(
                          List([k \in 1..Len(samples) |->
                                   lin2lin_scale(samples[k], width, new_width)]),
                          new_width)

(***************************************************************************)
(* ratecv.  The carry state is opaque: None, the empty dict the function   *)
(* makes of None, or whatever value the caller passes.                     *)
(***************************************************************************)
None == "None"

EmptyDict == "{}"

\* if state is None: state = {}
ratecv_state(state) == IF state = None THEN EmptyDict ELSE state

\* ratio = outrate / inrate
ratecv_ratio(inrate, outrate) == FDiv(FFromInt(outrate), FFromInt(inrate))

\* new_length = int(len(samples) * ratio / nchannels) * nchannels
ratecv_new_length(n, nchannels, ratio) ==
    FTrunc(FDiv(FMul(FFromInt(n), ratio), FFromInt(nchannels))) * nchannels

\* samples[min(old_index_int + ch, len(samples) - 1)], the list 0-based.
ratecv_last(samples, old_index_int, ch) ==
    samples[Min(old_index_int + ch, Len(samples) - 1) + 1]

\* interpolated = int(sample1 + frac * (sample2 - sample1))
ratecv_interpolated(sample1, sample2, frac) ==
    FTrunc(FAdd(FFromInt(sample1), FMul(frac, FFromInt(sample2 - sample1))))

\* The nchannels samples one pass of the loop appends, given old_index_int
\* and frac.
ratecv_channels(samples, nchannels, old_index_int, frac) ==
    List([c \in 1..nchannels |->
            IF old_index_int < Len(samples) - nchannels
            THEN IF old_index_int + (c - 1) < Len(samples)
                    /\ old_index_int + nchannels + (c - 1) < Len(samples)
                 THEN ratecv_interpolated(
                          samples[old_index_int + (c - 1) + 1],
                          samples[old_index_int + nchannels + (c - 1) + 1], frac)
                 ELSE ratecv_last(samples, old_index_int, c - 1)
            ELSE ratecv_last(samples, old_index_int, c - 1)])

\* old_index_int = int(old_index); frac = old_index - old_index_int
ratecv_at(samples, nchannels, old_index, old_index_int) ==
    ratecv_channels(samples, nchannels, old_index_int,
                    FSub(old_index, FFromInt(old_index_int)))

ratecv_from(samples, nchannels, old_index) ==
    ratecv_at(samples, nchannels, old_index, FTrunc(old_index))

\* One pass of the loop, for i the loop index: old_index = i / ratio.
ratecv_frame(samples, nchannels, ratio, i) ==
    ratecv_from(samples, nchannels, FDiv(FFromInt(i), ratio))

\* The frames of all the passes, one after the other.
ratecv_flatten(frames, nchannels) ==
    List([j \in 1..(Len(frames) * nchannels) |->
             frames[((j - 1) \div nchannels) + 1][((j - 1) % nchannels) + 1]])

\* The loop `for i in range(0, new_length, nchannels)`, for nchannels > 0:
\* pass k has i = (k - 1) * nchannels and appends one frame to new_samples.
ratecv_new_samples(samples, nchannels, ratio, new_length) ==
    IF new_length <= 0 THEN <<>>
    ELSE ratecv_flatten(
             List([k \in 1..((new_length + nchannels - 1) \div nchannels) |->
                      ratecv_frame(samples, nchannels, ratio, (k - 1) * nchannels)]),
             nchannels)

\* return _samples_to_bytes(new_samples, width), state
ratecv_return(packed, st) ==
    IF packed.exc # "none" THEN packed ELSE Ok(<<packed.val, st>>)

\* The conversion proper, of the samples decoded and sign-corrected.
ratecv_convert(samples, width, nchannels, ratio, st) ==
    ratecv_return(
        samples_to_bytes(
            ratecv_new_samples(samples, nchannels, ratio,
                               ratecv_new_length(Len(samples), nchannels, ratio)),
            width),
        st)

\* ratecv past the equal-rates return, got being what _get_samples gave.
ratecv_resample(got, width, nchannels, inrate, outrate, st) ==
    IF got.exc # "none" THEN got
    ELSE IF inrate = 0 THEN Raise("ZeroDivisionError", "division by zero")
    ELSE ratecv_convert(Unbias(got.val, width), width, nchannels,
                        ratecv_ratio(inrate, outrate), st)
\* A variant of ratecv without the equal-rates return: it always resamples.
ratecv_always(data, width, nchannels, inrate, outrate, state) ==
    ratecv_resample(get_samples(data, width), width, nchannels, inrate,
                    outrate, ratecv_state(state))

\* For nchannels > 0 (a zero channel count divides by zero at new_length).
ratecv(data, width, nchannels, inrate, outrate, state) ==
    IF inrate = outrate THEN Ok(<<data, ratecv_state(state)>>)
    ELSE ratecv_resample(get_samples(data, width), width, nchannels, inrate,
                         outrate, ratecv_state(state))

(***************************************************************************)
(* aifc.  The file-like handle is a seekable byte stream as io.BytesIO     *)
(* gives one: its bytes, the cursor, and whether it has been closed.       *)
(***************************************************************************)
Stream(data, pos) == [data |-> data, pos |-> pos, closed |-> FALSE]

\* file.read(n): the bytes from the cursor, fewer than n at the end.
ReadBytes(f, n) == SubSeq(f.data, f.pos + 1, Min(f.pos + n, Len(f.data)))

\* The stream after file.read(n).
AfterRead(f, n) == [f EXCEPT !.pos = Min(f.pos + n, Len(f.data))]

\* The value of big-endian bytes.
RECURSIVE BigEndian(_)
BigEndian(b) ==
    IF b = <<>> THEN 0
    ELSE BigEndian(SubSeq(b, 1, Len(b) - 1)) * 256 + b[Len(b)]

\* struct.unpack('>H', b)[0] (size 2) and struct.unpack('>L', b)[0] (size 4).
UnpackBE(b, size) ==
    IF Len(b) # size
    THEN Raise("struct.error", "unpack requires a buffer of N bytes")
    ELSE Ok(BigEndian(b))

\* b'FORM', b'AIFF', b'AIFC', b'COMM' and b'SSND'.
FORM == <<70, 79, 82, 77>>

AIFF == <<65, 73, 70, 70>>

AIFC == <<65, 73, 70, 67>>

COMM == <<67, 79, 77, 77>>

SSND == <<83, 83, 78, 68>>

NotAiffMsg == "Not an AIFF file"

InvalidAiffMsg == "Invalid AIFF file"

DefaultFramerate == 44100

\* The fields Aifc_read.__init__ sets before it parses; pc is where the
\* parse stands: in the chunk loop, returned ("done"), or raised ("failed",
\* with the message of the aifc.Error in error).
NewReader ==
    [pc |-> "chunks", error |-> "", nchannels |-> 1, sampwidth |-> 2,
     framerate |-> DefaultFramerate, nframes |-> 0]

\* What a step of the parse leaves: the reader and the stream.
Parsed(r, f) == [reader |-> r, file |-> f]

ParseFailed(r, f, msg) == Parsed([r EXCEPT !.pc = "failed", !.error = msg], f)

ParseDone(r, f) == Parsed([r EXCEPT !.pc = "done"], f)

\* A variant of the format type check that accepts any four bytes.
parseheader_type_any(r, f) == Parsed(r, AfterRead(f, 4))

\* The format type, read after the four bytes of the FORM size are skipped.
parseheader_type(r, f) ==
    IF ReadBytes(f, 4) \notin {AIFF, AIFC}
    THEN ParseFailed(r, AfterRead(f, 4), NotAiffMsg)
    ELSE Parsed(r, AfterRead(f, 4))

\* _parseheader up to the chunk loop.
parseheader_form(r, f) ==
    IF ReadBytes(f, 4) # FORM
    THEN ParseFailed(r, AfterRead(f, 4), NotAiffMsg)
    ELSE parseheader_type(r, AfterRead(AfterRead(f, 4), 4))

\* A variant of the skip that reads no pad byte after a body of odd length.
skip_size_unpadded(chunk_size) == chunk_size

\* The bytes read past the body of a chunk that is not COMM.
skip_size(chunk_size) == IF chunk_size % 2 = 1 THEN chunk_size + 1 ELSE chunk_size

\* The COMM fields, the stream standing after the chunk size: each field is
\* assigned as soon as it is unpacked, and the ten bytes of the sample rate
\* are read but not unpacked.
parseheader_comm(r, f, chunk_size) ==
    LET nchannels == UnpackBE(ReadBytes(f, 2), 2)
        f1        == AfterRead(f, 2)
        nframes   == UnpackBE(ReadBytes(f1, 4), 4)
        f2        == AfterRead(f1, 4)
        bits      == UnpackBE(ReadBytes(f2, 2), 2)
        f3        == AfterRead(f2, 2)
        f4        == AfterRead(f3, 10)
    IN  IF nchannels.exc # "none" THEN ParseFailed(r, f1, InvalidAiffMsg)
        ELSE IF nframes.exc # "none"
        THEN ParseFailed([r EXCEPT !.nchannels = nchannels.val], f2, InvalidAiffMsg)
        ELSE IF bits.exc # "none"
        THEN ParseFailed([r EXCEPT !.nchannels = nchannels.val,
                                   !.nframes = nframes.val], f3, InvalidAiffMsg)
        ELSE ParseDone([r EXCEPT !.nchannels = nchannels.val,
                                 !.nframes = nframes.val,
                                 !.sampwidth = bits.val \div 8,
                                 !.framerate = DefaultFramerate],
                       IF chunk_size > 18 THEN AfterRead(f4, chunk_size - 18) ELSE f4)

\* The chunk whose id was read, the stream standing after the id.
parseheader_sized(r, f, chunk_id, chunk_size) ==
    IF chunk_size.exc # "none" THEN ParseFailed(r, AfterRead(f, 4), InvalidAiffMsg)
    ELSE IF chunk_id = COMM THEN parseheader_comm(r, AfterRead(f, 4), chunk_size.val)
    ELSE Parsed(r, AfterRead(AfterRead(f, 4), skip_size(chunk_size.val)))

\* A variant of the loop turn that takes the end of the input for an error.
parseheader_chunk_strict(r, f) ==
    IF ReadBytes(f, 4) = <<>> THEN ParseFailed(r, AfterRead(f, 4), InvalidAiffMsg)
    ELSE parseheader_sized(r, AfterRead(f, 4), ReadBytes(f, 4),
                           UnpackBE(ReadBytes(AfterRead(f, 4), 4), 4))

\* One turn of the chunk loop.
parseheader_chunk(r, f) ==
    IF ReadBytes(f, 4) = <<>> THEN ParseDone(r, AfterRead(f, 4))
    ELSE parseheader_sized(r, AfterRead(f, 4), ReadBytes(f, 4),
                           UnpackBE(ReadBytes(AfterRead(f, 4), 4), 4))

\* file.write(b) at the cursor, over what the stream holds there.
WriteBytes(f, b) ==
    [f EXCEPT !.data = SubSeq(f.data, 1, f.pos) \o b
                           \o SubSeq(f.data, f.pos + Len(b) + 1, Len(f.data)),
              !.pos = f.pos + Len(b)]

\* file.seek(pos).
Seek(f, pos) == [f EXCEPT !.pos = pos]

\* file.close().
CloseStream(f) == [f EXCEPT !.closed = TRUE]

\* struct.pack('>H', v) (size 2) and struct.pack('>L', v) (size 4), for
\* v below 2^31.
PackBE(v, size) ==
    IF v < 0 \/ (size = 2 /\ v > 65535)
    THEN Raise("struct.error", "argument out of range")
    ELSE Ok(List([i \in 1..size |-> (v \div Pow2(8 * (size - i))) % 256]))

\* The sample rate field for 0 <= framerate < 2^28:
\* struct.pack('>HQ', 0x400E, framerate << 19), 0x400E being the bytes 64
\* and 14 and framerate << 19 being framerate * 8 moved up two bytes.
RateBytes(framerate) ==
    <<64, 14, 0, 0>> \o PackBE(framerate * 8, 4).val \o <<0, 0>>

\* The fields Aifc_write.__init__ sets; frames is the list writeframes
\* appends to, and pc tells an open writer from one whose close returned
\* ("closed") or raised ("failed", with the exception in error).
NewWriter ==
    [pc |-> "open", error |-> "", nchannels |-> 1, sampwidth |-> 2,
     framerate |-> DefaultFramerate, nframes |-> 0, frames |-> <<>>]

\* A variant of the join that puts each buffer before the ones appended
\* ahead of it.
RECURSIVE Join_reversed(_)
Join_reversed(frames) ==
    IF frames = <<>> THEN <<>> ELSE Join_reversed(Tail(frames)) \o Head(frames)

\* b''.join(frames).
RECURSIVE Join(_)
Join(frames) == IF frames = <<>> THEN <<>> ELSE Head(frames) \o Join(Tail(frames))

\* What close leaves: the writer and the stream.
Written(w, f) == [writer |-> w, file |-> f]

WriteFailed(w, f, exc) == Written([w EXCEPT !.pc = "failed", !.error = exc], f)

\* A variant of the end of close that writes the whole length as the FORM
\* size.
close_patch_total(w, f, size_pos, current_pos) ==
    Written([w EXCEPT !.pc = "closed"],
            CloseStream(Seek(WriteBytes(Seek(f, size_pos),
                                        PackBE(current_pos, 4).val),
                             current_pos)))

\* The end of close: the FORM size is written at size_pos, the cursor is
\* put back at the end and the stream is closed.
close_patch(w, f, size_pos, current_pos) ==
    Written([w EXCEPT !.pc = "closed"],
            CloseStream(Seek(WriteBytes(Seek(f, size_pos),
                                        PackBE(current_pos - 8, 4).val),
                             current_pos)))

\* The SSND chunk: its size, eight zero bytes and the frames.
close_ssnd(w, f, frames_data, size_pos) ==
    close_patch(w,
                WriteBytes(f, SSND \o PackBE(Len(frames_data) + 8, 4).val
                                   \o <<0, 0, 0, 0>> \o <<0, 0, 0, 0>> \o frames_data),
                size_pos,
                f.pos + 16 + Len(frames_data))

\* The COMM fields, each packed and written in turn: a value struct cannot
\* pack raises after the writes before it.
close_comm(w, f, frames_data, size_pos) ==
    LET nchannels == PackBE(w.nchannels, 2)
        nframes   == PackBE(w.nframes, 4)
        bits      == PackBE(w.sampwidth * 8, 2)
    IN  IF nchannels.exc # "none" THEN WriteFailed(w, f, "struct.error")
        ELSE IF nframes.exc # "none"
        THEN WriteFailed(w, WriteBytes(f, nchannels.val), "struct.error")
        ELSE IF bits.exc # "none"
        THEN WriteFailed(w, WriteBytes(f, nchannels.val \o nframes.val), "struct.error")
        ELSE IF w.framerate < 0
        THEN WriteFailed(w, WriteBytes(f, nchannels.val \o nframes.val \o bits.val),
                         "struct.error")
        ELSE close_ssnd(w,
                        WriteBytes(f, nchannels.val \o nframes.val \o bits.val
                                          \o RateBytes(w.framerate)),
                        frames_data, size_pos)

\* The FORM header with a zero size, and the head of the COMM chunk.
close_form(w, f, frames_data) ==
    close_comm(w,
               WriteBytes(f, FORM \o <<0, 0, 0, 0>> \o AIFF \o COMM \o PackBE(18, 4).val),
               frames_data, f.pos + 4)

\* A variant of close that counts the frames by the channel count alone.
Aifc_write_close_by_channels(w, f) ==
    IF w.nchannels * w.sampwidth = 0 THEN WriteFailed(w, f, "ZeroDivisionError")
    ELSE IF f.closed
    THEN WriteFailed([w EXCEPT !.nframes = Len(Join(w.frames)) \div w.nchannels],
                     f, "ValueError")
    ELSE close_form([w EXCEPT !.nframes = Len(Join(w.frames)) \div w.nchannels],
                    f, Join(w.frames))

\* Aifc_write.close: the frame count divides by zero before anything is
\* written when a channel count or a width is zero, and the first write
\* raises ValueError on a stream that is closed.
Aifc_write_close(w, f) ==
    IF w.nchannels * w.sampwidth = 0 THEN WriteFailed(w, f, "ZeroDivisionError")
    ELSE IF f.closed
    THEN WriteFailed([w EXCEPT !.nframes = Len(Join(w.frames))
                                               \div (w.nchannels * w.sampwidth)],
                     f, "ValueError")
    ELSE close_form([w EXCEPT !.nframes = Len(Join(w.frames))
                                              \div (w.nchannels * w.sampwidth)],
                    f, Join(w.frames))

\* The bytes of the frames a writer was given.
Payload(w) == Join(w.frames)

\* Where in the stream the container of a closed writer begins.
ContainerStart(w, f) == f.pos - 54 - Len(Payload(w))

\* The bytes a close that returned has written, from the FORM id to the
\* cursor: what is handed to a reader that reads the container back.
Container(w, f) == SubSeq(f.data, ContainerStart(w, f) + 1, f.pos)

\* 'r' in mode and 'w' in mode, a mode being the sequence of its characters.
InMode(char, mode) == \E i \in 1..Len(mode) : mode[i] = char

\* hasattr(filename, 'read') and hasattr(filename, 'write'): a path name has
\* neither attribute, a stream has both.
HasAttr(filename, name) == filename = "stream"

\* What one call of open comes to: the constructor it returns the object
\* of, the call of open it makes first (the name open, inside the module,
\* is the function itself), or the exception it raises.
open(filename, mode) ==
    IF InMode("r", mode)
    THEN IF HasAttr(filename, "read") THEN Ok("Aifc_read(filename)")
         ELSE Ok("open(filename, 'rb')")
    ELSE IF InMode("w", mode)
    THEN IF HasAttr(filename, "write") THEN Ok("Aifc_write(filename)")
         ELSE Ok("open(filename, 'wb')")
    ELSE Raise("ValueError", "Invalid mode")

(***************************************************************************)
(* web_app.  A text is the sequence of its characters; the disk of the     *)
(* server is the set of the temporary files on it, each named by a number. *)
(***************************************************************************)
Whitespace == {" ", "\t", "\n"}

\* str.strip(): the text without the whitespace at its two ends.
RECURSIVE Strip(_)
Strip(text) ==
    IF text = <<>> THEN <<>>
    ELSE IF text[1] \in Whitespace THEN Strip(Tail(text))
    ELSE IF text[Len(text)] \in Whitespace THEN Strip(SubSeq(text, 1, Len(text) - 1))
    ELSE text

\* The sockets that connect to the server, each named by its request.sid.
Sids == {"a", "b"}

\* active_transcribers = {}: a dictionary is its keys and, for each key,
\* the transcript_data of the transcriber stored under it (empty for a name
\* that is not a key).
NoTranscribers == [keys |-> {}, transcript_data |-> [k \in Sids |-> <<>>]]

\* The server as it starts.  A WebAudioTranscriber as __init__ leaves it,
\* the disk with no temporary file on it, and what the last call of
\* add_audio_data returned; then the dictionary active_transcribers, the
\* session of each socket (its session_id, None before connect stores
\* one), the sockets that are connected, the event the last handler was
\* called for and what that handler emitted.
NewServer ==
    [transcript_data |-> <<>>, temp_files |-> {}, returned |-> None,
     active_transcribers |-> NoTranscribers,
     session |-> [sid \in Sids |-> None],
     connected |-> {},
     request |-> [event |-> "none", sid |-> "none"],
     emitted |-> <<>>]

\* The name NamedTemporaryFile gives the file it creates: one no file has.
TempName(s) == CHOOSE name \in 1..(Cardinality(s.temp_files) + 1) : name \notin s.temp_files

\* WebAudioTranscriber.add_audio_data, given what the environment does:
\* whether the temporary file is created and written, whether the model
\* transcribes or raises, the text it returns and the time of day.  The
\* name of the file is bound only after the write, so a write that fails
\* leaves a file the handler cannot unlink; a transcription that raises
\* has its file unlinked by the handler; a text that is empty once
\* stripped falls through to the return with the file in place.
add_audio_data(s, tempfile, transcription, transcript_text, timestamp) ==
    IF tempfile = "create fails" THEN [s EXCEPT !.returned = None]
    ELSE IF tempfile = "write fails"
    THEN [s EXCEPT !.temp_files = s.temp_files \cup {TempName(s)}, !.returned = None]
    ELSE IF transcription = "raises" THEN [s EXCEPT !.returned = None]
    ELSE IF transcript_text # <<>> /\ Strip(transcript_text) # <<>>
    THEN [s EXCEPT !.transcript_data =
                       Append(s.transcript_data,
                              [timestamp |-> timestamp, text |-> Strip(transcript_text),
                               source |-> "microphone"]),
                   !.returned = Strip(transcript_text)]
    ELSE [s EXCEPT !.temp_files = s.temp_files \cup {TempName(s)}, !.returned = None]

\* emit(event, ...) in a handler: a message to the socket of the request.
Emit(s, event, sid, transcript, new_text) ==
    [s EXCEPT !.emitted = Append(s.emitted,
                                 [event |-> event, to |-> sid,
                                  transcript |-> transcript, new_text |-> new_text])]

\* WebAudioTranscriber.get_transcript: a placeholder, or a line for each of
\* the last ten entries.
get_transcript(transcript_data) ==
    IF transcript_data = <<>> THEN <<"Listening for audio...">>
    ELSE LET last == SubSeq(transcript_data, Max(1, Len(transcript_data) - 9),
                            Len(transcript_data))
         IN  [i \in 1..Len(last) |-> <<last[i].timestamp, last[i].text>>]

\* handle_connect: the session_id is the one the session holds, or the
\* request.sid; a new transcriber is stored under it.
handle_connect(s, sid) ==
    LET session_id == IF s.session[sid] # None THEN s.session[sid] ELSE sid
    IN  Emit([s EXCEPT !.session[sid] = session_id,
                       !.active_transcribers.keys = @ \cup {session_id},
                       !.active_transcribers.transcript_data[session_id] = <<>>],
             "connected", sid, <<>>, <<>>)

\* A variant of handle_disconnect that leaves the entry in place.
handle_disconnect_keeping(s, sid) == s

\* handle_disconnect.
handle_disconnect(s, sid) ==
    IF s.session[sid] \in s.active_transcribers.keys
    THEN [s EXCEPT !.active_transcribers.keys = @ \ {s.session[sid]},
                   !.active_transcribers.transcript_data[s.session[sid]] = <<>>]
    ELSE s

\* The transcriber stored under a key and the disk, as add_audio_data
\* takes them.
TranscriberOf(s, session_id) ==
    [transcript_data |-> s.active_transcribers.transcript_data[session_id],
     temp_files |-> s.temp_files, returned |-> None]

\* The rest of handle_audio_data, t being what add_audio_data left: the
\* call returned a text exactly when it appended an entry.
handle_audio_data_emit(s, sid, session_id, t) ==
    LET s1 == [s EXCEPT !.active_transcribers.transcript_data[session_id] =
                            t.transcript_data,
                        !.temp_files = t.temp_files,
                        !.returned = t.returned]
    IN  IF Len(t.transcript_data)
               > Len(s.active_transcribers.transcript_data[session_id])
        THEN Emit(s1, "transcript_update", sid,
                  get_transcript(t.transcript_data), t.returned)
        ELSE s1

\* handle_audio_data, given whether data['audio'] is there and decodes, and
\* what the environment does in add_audio_data.
handle_audio_data(s, sid, audio, tempfile, transcription, transcript_text, timestamp) ==
    IF s.session[sid] \notin s.active_transcribers.keys THEN s
    ELSE IF audio # "base64"
    THEN Emit(s, "error", sid, <<"Error processing audio">>, <<>>)
    ELSE handle_audio_data_emit(s, sid, s.session[sid],
                                add_audio_data(TranscriberOf(s, s.session[sid]),
                                               tempfile, transcription,
                                               transcript_text, timestamp))

\* handle_clear_transcript.
handle_clear_transcript(s, sid) ==
    IF s.session[sid] \in s.active_transcribers.keys
    THEN Emit([s EXCEPT !.active_transcribers.transcript_data[s.session[sid]] = <<>>],
              "transcript_update", sid,
              <<"Transcript cleared. Listening for audio...">>, <<>>)
    ELSE s

\* The server when a handler is called: the request it is called for, and
\* nothing emitted yet.
Handling(s, event, sid) ==
    [s EXCEPT !.request = [event |-> event, sid |-> sid], !.emitted = <<>>]

(***************************************************************************)
(* client_app.  The flags of EcouteClient (is_connected, is_streaming) and *)
(* of its AudioCapture (is_recording, stream), the socket (sio), the       *)
(* callbacks window.after has queued for the main thread (events) and the  *)
(* chunks the audio callback has queued (audio_queue).                     *)
(***************************************************************************)
NewClient ==
    [is_connected |-> FALSE, is_streaming |-> FALSE, is_recording |-> FALSE,
     stream |-> None, sio |-> FALSE, events |-> <<>>, audio_queue |-> <<>>]

\* AudioCapture.start_recording, given what PyAudio does (the stream opens
\* and starts, the open raises, or start_stream raises): the client, and
\* what the call returns.  is_recording is set before start_stream is
\* called and is not reset when it raises.
AudioCapture_start_recording(c, pyaudio) ==
    IF c.is_recording THEN [client |-> c, returned |-> FALSE]
    ELSE IF pyaudio = "open raises" THEN [client |-> c, returned |-> FALSE]
    ELSE IF pyaudio = "start raises"
    THEN [client |-> [c EXCEPT !.stream = "open", !.is_recording = TRUE],
          returned |-> FALSE]
    ELSE [client |-> [c EXCEPT !.stream = "started", !.is_recording = TRUE],
          returned |-> TRUE]

\* AudioCapture.stop_recording.
AudioCapture_stop_recording(c) == [c EXCEPT !.is_recording = FALSE, !.stream = None]

\* EcouteClient.start_recording, given the text of the device box.
start_recording(c, device_text, pyaudio) ==
    IF device_text = "" THEN c
    ELSE IF AudioCapture_start_recording(c, pyaudio).returned
    THEN [AudioCapture_start_recording(c, pyaudio).client EXCEPT !.is_streaming = TRUE]
    ELSE AudioCapture_start_recording(c, pyaudio).client

\* EcouteClient.stop_recording.
stop_recording(c) == [AudioCapture_stop_recording(c) EXCEPT !.is_streaming = FALSE]

\* EcouteClient.toggle_recording.
toggle_recording(c, device_text, pyaudio) ==
    IF ~c.is_connected THEN c
    ELSE IF ~c.is_streaming THEN start_recording(c, device_text, pyaudio)
    ELSE stop_recording(c)

\* EcouteClient.connect_to_server: sio.connect raises when the server
\* refuses or when the socket is connected already; when it returns, the
\* connect handler queues _on_connected for the main thread.
connect_to_server(c, server_accepts) ==
    IF c.sio \/ ~server_accepts THEN c
    ELSE [c EXCEPT !.sio = TRUE, !.events = Append(c.events, "_on_connected")]

\* The socket is disconnected, by the client or by the server: the
\* disconnect handler queues _on_disconnected for the main thread.
sio_disconnect(c) ==
    IF ~c.sio THEN c
    ELSE [c EXCEPT !.sio = FALSE, !.events = Append(c.events, "_on_disconnected")]

\* EcouteClient.disconnect_from_server.
disconnect_from_server(c, device_text, pyaudio) ==
    sio_disconnect(IF c.is_streaming THEN toggle_recording(c, device_text, pyaudio)
                   ELSE c)

\* EcouteClient.toggle_connection.
toggle_connection(c, server_accepts, device_text, pyaudio) ==
    IF ~c.is_connected THEN connect_to_server(c, server_accepts)
    ELSE disconnect_from_server(c, device_text, pyaudio)

\* EcouteClient._on_connected and EcouteClient._on_disconnected.
on_connected(c) == [c EXCEPT !.is_connected = TRUE]

on_disconnected(c) ==
    AudioCapture_stop_recording([c EXCEPT !.is_connected = FALSE, !.is_streaming = FALSE])

\* AudioCapture._audio_callback.
audio_callback(c, in_data) ==
    IF c.is_recording THEN [c EXCEPT !.audio_queue = Append(c.audio_queue, in_data)]
    ELSE c

\* One turn of EcouteClient.audio_processing_loop: the queue is emptied (and
\* its chunks are sent) when the client is streaming and connected.
audio_processing_loop(c) ==
    IF c.is_streaming /\ c.is_connected THEN [c EXCEPT !.audio_queue = <<>>] ELSE c

(***************************************************************************)
(* The inputs of the calls.  Bytes 0, 128 and 255 give the extreme and the *)
(* middle sample of every width (128 is silence at width 1, 0 at widths 2  *)
(* and 4).  The long buffers add whole frames of the wider formats: one    *)
(* and two width-4 samples, two stereo frames of width 1, silence, and an  *)
(* 11-sample buffer.                                                       *)
(***************************************************************************)
ByteVals == {0, 128, 255}

ShortBuffers == UNION {[1..n -> ByteVals] : n \in 0..MaxLen}

Words4 == {<<0, 0, 0, 0>>, <<255, 0, 0, 0>>, <<255, 255, 255, 255>>}

LongBuffers ==
    Words4 \cup {a \o b : a \in Words4, b \in Words4}
           \cup {<<0, 255, 0, 255>>, <<0, 128, 0, 128>>, <<128, 128, 128, 128>>,
                 [i \in 1..11 |-> 128]}

Buffers == ShortBuffers \cup LongBuffers

SecondBuffers == {<<>>, <<128>>, <<255, 0>>, <<0, 128, 255, 255>>, <<255, 0, 0, 0, 255, 0, 0, 0>>}

Widths == 0..4

SampleVals == {Int32Min, -32769, Int16Min, -129, -128, -1, 0, 1, 127, 128,
               255, Int16Max, 32768, 16777216}

SampleSeqs == UNION {[1..n -> SampleVals] : n \in 0..MaxSamples}

BiasValues == {-1, 1, 200}

Gains == {-1, 0, 1, 2}

Channels == {1, 2}

RatePairs == {<<1, 1>>, <<1, 2>>, <<2, 1>>, <<11, 15>>}

States == {None, "carry"}

\* A COMM chunk of the given fields, with the bytes an AIFC file adds.
CommChunk(nchannels, nframes, bits, extra) ==
    COMM \o PackBE(18 + Len(extra), 4).val \o PackBE(nchannels, 2).val
         \o PackBE(nframes, 4).val \o PackBE(bits, 2).val
         \o RateBytes(DefaultFramerate) \o extra

\* Any other chunk, with the pad byte after a body of odd length.
Chunk(id, body) ==
    id \o PackBE(Len(body), 4).val \o body
       \o (IF Len(body) % 2 = 1 THEN <<0>> ELSE <<>>)

ABCD == <<65, 66, 67, 68>>

\* The files given to the reader, whole: an odd chunk before COMM and SSND
\* after it; an AIFC file of two COMM chunks; an even and an odd chunk
\* before COMM; two files that are not AIFF; and a file whose odd chunk has
\* no pad byte.
Containers ==
    {FORM \o <<0, 0, 0, 48>> \o AIFF \o Chunk(ABCD, <<1, 2, 3>>)
          \o CommChunk(2, 5, 16, <<>>) \o Chunk(SSND, <<0, 0>>),
     FORM \o <<0, 0, 0, 60>> \o AIFC \o CommChunk(1, 300, 24, <<9, 9, 9, 9>>)
          \o CommChunk(2, 1, 8, <<>>),
     FORM \o <<0, 0, 0, 0>> \o AIFF \o Chunk(ABCD, <<1, 2>>) \o Chunk(SSND, <<7>>)
          \o CommChunk(2, 7, 8, <<>>),
     <<82, 73, 70, 70, 0, 0, 0, 4>> \o <<87, 65, 86, 69>>,
     FORM \o <<0, 0, 0, 4>> \o <<87, 65, 86, 69>>,
     FORM \o <<0, 0, 0, 0>> \o AIFF \o ABCD \o <<0, 0, 0, 1, 5>>
          \o CommChunk(1, 2, 16, <<>>)}

\* The inputs of the reader: those files and every file cut short of one.
ReaderInputs ==
    UNION {{SubSeq(c, 1, n) : n \in 0..Min(Len(c), MaxInput)} : c \in Containers}

\* The streams given to the writer: an empty one, and one that holds three
\* bytes with the cursor after them.
WriterStreams == {Stream(<<>>, 0), Stream(<<1, 2, 3>>, 3)}

ChannelCounts == {0, 1, 2, 65535, 65536}

SampleWidths == {1, 2, 4}

\* Arguments of setframerate, as fractions: 8000 and 22050.5.
Framerates == {<<8000, 1>>, <<44101, 2>>}

FrameBuffers == {<<>>, <<1>>, <<1, 2>>, <<1, 2, 3, 4>>}

\* What the environment does in a call of add_audio_data: the temporary
\* file, the transcription, the texts of the model and the times of day.
TempfileOutcomes == {"ok", "create fails", "write fails"}

TranscriptionOutcomes == {"returns", "raises"}

Transcripts == {<<>>, <<" ", "\n">>, <<"h", "i">>, <<" ", "o", "k", " ">>}

Timestamps == {"10:00:00", "10:00:01"}

\* The audio field of an audio_data event: text that b64decode decodes,
\* text it raises on (its padding is wrong), or no such field.
AudioFields == {"base64", "bad padding", "missing"}

\* What the environment does in the add_audio_data of a handled event: the
\* file is not created, or not written, or the transcription raises, or it
\* returns one of the texts.
AudioOutcomes ==
    {[tempfile |-> "create fails", transcription |-> "returns", transcript_text |-> <<>>],
     [tempfile |-> "write fails", transcription |-> "returns", transcript_text |-> <<>>],
     [tempfile |-> "ok", transcription |-> "raises", transcript_text |-> <<>>]}
        \cup {[tempfile |-> "ok", transcription |-> "returns", transcript_text |-> t] :
                  t \in Transcripts}

\* The time of day of the handled events.
HandlerTime == "10:00:00"

\* What PyAudio does when a stream is opened and started, the texts of the
\* device box (empty, with a device index, without one) and the chunks the
\* stream delivers.
PyaudioOutcomes == {"ok", "open raises", "start raises"}

DeviceTexts == {"", "dev (Index: 1) [Input]", "dev"}

AudioChunks == {<<0, 0>>, <<1, 0>>}

\* The first argument of open, a path name or a stream, and its modes.
Filenames == {"path", "stream"}

Modes == {<<>>, <<"r">>, <<"r", "b">>, <<"w">>, <<"w", "b">>, <<"r", "w">>, <<"a">>}

\* The model checker's integers are 32 bits wide and Python's are not: the
\* arithmetic operations are given width-4 samples below 2^24 in magnitude
\* (no top byte 128), so that no intermediate value leaves 32 bits.
Fits(data, width) ==
    width = 4 => \A i \in 1..Len(data) : i % 4 = 0 => data[i] # 128

\* The result of rms is below 2^31 when no sample is -2^31.
RmsFits(data, width) ==
    width = 4 =>
        \A i \in 1..(Len(data) \div 4) :
            SubSeq(data, 4 * i - 3, 4 * i) # <<0, 0, 0, 128>>

\* The buffers given to rms: with them, two width-4 samples, 318281039 and
\* 0, whose mean square is half a unit below the square of 225058681.
RmsBuffers == Buffers \cup {<<79, 149, 248, 18, 0, 0, 0, 0>>}

(***************************************************************************)
(* The state.  For audioop: the call made (op, with its arguments in arg)  *)
(* and what it returned or raised; the operations are pure functions, so a *)
(* behaviour is one call, or an encode whose bytes are then decoded, or a  *)
(* swap of swapped bytes.  For aifc: the stream handed to the reader or    *)
(* the writer, and the fields of the Aifc_read or Aifc_write object (pc    *)
(* "none" before it is constructed).  For the web application: the         *)
(* transcriber of a session and the temporary files on the server's disk.  *)
(* For the desktop client: the flags of EcouteClient and of its            *)
(* AudioCapture, the stream, the socket and the queues between threads.    *)
(***************************************************************************)
VARIABLES op, arg, result, file, reader, writer, server, client

vars == <<op, arg, result, file, reader, writer, server, client>>

NoArgs ==
    [data |-> <<>>, data2 |-> <<>>, width |-> 0, samples |-> <<>>,
     bias_value |-> 0, left_gain |-> 0, right_gain |-> 0, new_width |-> 0,
     nchannels |-> 0, inrate |-> 0, outrate |-> 0, state |-> None, fed |-> FALSE,
     filename |-> "none", mode |-> <<>>, depth |-> 0]

\* No operation of audioop or aifc has been called.
Unused == op = "none" /\ reader.pc = "none" /\ writer.pc = "none"

\* Nothing has been called or constructed yet, and the server and the
\* client are as they start: a behaviour follows one of the programs, which
\* share no state.
Idle == Unused /\ server = NewServer /\ client = NewClient

Init ==
    /\ op = "none"
    /\ arg = NoArgs
    /\ result = Ok(<<>>)
    /\ file = Stream(<<>>, 0)
    /\ reader = [NewReader EXCEPT !.pc = "none"]
    /\ writer = [NewWriter EXCEPT !.pc = "none"]
    /\ server = NewServer
    /\ client = NewClient

CallGetSamples ==
    /\ UNCHANGED <<server, client>>
    /\ Idle
    /\ UNCHANGED <<file, reader, writer>>
    /\ \E d \in Buffers, w \in Widths :
        /\ op' = "_get_samples"
        /\ arg' = [NoArgs EXCEPT !.data = d, !.width = w]
        /\ result' = get_samples(d, w)

CallSamplesToBytes ==
    /\ UNCHANGED <<server, client>>
    /\ Idle
    /\ UNCHANGED <<file, reader, writer>>
    /\ \E s \in SampleSeqs, w \in Widths :
        /\ op' = "_samples_to_bytes"
        /\ arg' = [NoArgs EXCEPT !.samples = s, !.width = w]
        /\ result' = samples_to_bytes(s, w)

\* The bytes an encode returned are decoded at the same width.
DecodeEncoded ==
    /\ UNCHANGED <<server, client>>
    /\ op = "_samples_to_bytes"
    /\ UNCHANGED <<file, reader, writer>>
    /\ result.exc = "none"
    /\ op' = "_get_samples"
    /\ arg' = [arg EXCEPT !.data = result.val, !.fed = TRUE]
    /\ result' = get_samples(result.val, arg.width)

CallRms ==
    /\ UNCHANGED <<server, client>>
    /\ Idle
    /\ UNCHANGED <<file, reader, writer>>
    /\ \E d \in RmsBuffers, w \in Widths :
        /\ RmsFits(d, w)
        /\ op' = "rms"
        /\ arg' = [NoArgs EXCEPT !.data = d, !.width = w]
        /\ result' = rms(d, w)

CallAdd ==
    /\ UNCHANGED <<server, client>>
    /\ Idle
    /\ UNCHANGED <<file, reader, writer>>
    /\ \E d1 \in Buffers, d2 \in SecondBuffers, w \in Widths :
        /\ Fits(d1, w) /\ Fits(d2, w)
        /\ op' = "add"
        /\ arg' = [NoArgs EXCEPT !.data = d1, !.data2 = d2, !.width = w]
        /\ result' = add(d1, d2, w)

CallBias ==
    /\ UNCHANGED <<server, client>>
    /\ Idle
    /\ UNCHANGED <<file, reader, writer>>
    /\ \E d \in Buffers, w \in Widths, b \in BiasValues :
        /\ Fits(d, w)
        /\ op' = "bias"
        /\ arg' = [NoArgs EXCEPT !.data = d, !.width = w, !.bias_value = b]
        /\ result' = bias(d, w, b)

CallByteswap ==
    /\ UNCHANGED <<server, client>>
    /\ Idle
    /\ UNCHANGED <<file, reader, writer>>
    /\ \E d \in Buffers, w \in Widths :
        /\ op' = "byteswap"
        /\ arg' = [NoArgs EXCEPT !.data = d, !.width = w]
        /\ result' = byteswap(d, w)

\* The bytes a byteswap returned are swapped again at the same width.
SwapAgain ==
    /\ UNCHANGED <<server, client>>
    /\ op = "byteswap"
    /\ ~arg.fed
    /\ UNCHANGED <<file, reader, writer>>
    /\ result.exc = "none"
    /\ op' = "byteswap"
    /\ arg' = [arg EXCEPT !.fed = TRUE]
    /\ result' = byteswap(result.val, arg.width)

CallTomono ==
    /\ UNCHANGED <<server, client>>
    /\ Idle
    /\ UNCHANGED <<file, reader, writer>>
    /\ \E d \in Buffers, w \in Widths, lg \in Gains, rg \in Gains :
        /\ Fits(d, w)
        /\ op' = "tomono"
        /\ arg' = [NoArgs EXCEPT !.data = d, !.width = w,
                                 !.left_gain = lg, !.right_gain = rg]
        /\ result' = tomono(d, w, lg, rg)

CallRatecv ==
    /\ UNCHANGED <<server, client>>
    /\ Idle
    /\ UNCHANGED <<file, reader, writer>>
    /\ \E d \in Buffers, w \in Widths, n \in Channels, r \in RatePairs, st \in States :
        /\ Fits(d, w)
        /\ op' = "ratecv"
        /\ arg' = [NoArgs EXCEPT !.data = d, !.width = w, !.nchannels = n,
                                 !.inrate = r[1], !.outrate = r[2], !.state = st]
        /\ result' = ratecv(d, w, n, r[1], r[2], st)

CallLin2lin ==
    /\ UNCHANGED <<server, client>>
    /\ Idle
    /\ UNCHANGED <<file, reader, writer>>
    /\ \E d \in Buffers, w \in Widths, nw \in Widths :
        /\ op' = "lin2lin"
        /\ arg' = [NoArgs EXCEPT !.data = d, !.width = w, !.new_width = nw]
        /\ result' = lin2lin(d, w, nw)

\* Aifc_read(file): __init__ and _parseheader up to the chunk loop.
ReadOpen ==
    /\ UNCHANGED <<server, client>>
    /\ Idle
    /\ UNCHANGED <<op, arg, result, writer>>
    /\ \E d \in ReaderInputs :
        /\ reader' = parseheader_form(NewReader, Stream(d, 0)).reader
        /\ file' = parseheader_form(NewReader, Stream(d, 0)).file

\* One turn of the chunk loop of _parseheader.
ReadChunk ==
    /\ UNCHANGED <<server, client>>
    /\ reader.pc = "chunks"
    /\ UNCHANGED <<op, arg, result, writer>>
    /\ reader' = parseheader_chunk(reader, file).reader
    /\ file' = parseheader_chunk(reader, file).file

\* Aifc_read.close.
ReadClose ==
    /\ UNCHANGED <<server, client>>
    /\ reader.pc = "done"
    /\ ~file.closed
    /\ UNCHANGED <<op, arg, result, writer>>
    /\ reader' = reader
    /\ file' = CloseStream(file)

\* Aifc_write(file).
WriteOpen ==
    /\ UNCHANGED <<server, client>>
    /\ Idle
    /\ UNCHANGED <<op, arg, result, reader>>
    /\ \E f \in WriterStreams :
        /\ writer' = NewWriter
        /\ file' = f

SetNchannels ==
    /\ UNCHANGED <<server, client>>
    /\ writer.pc = "open"
    /\ UNCHANGED <<op, arg, result, reader, file>>
    /\ \E nchannels \in ChannelCounts :
        writer' = [writer EXCEPT !.nchannels = nchannels]

SetSampwidth ==
    /\ UNCHANGED <<server, client>>
    /\ writer.pc = "open"
    /\ UNCHANGED <<op, arg, result, reader, file>>
    /\ \E sampwidth \in SampleWidths :
        writer' = [writer EXCEPT !.sampwidth = sampwidth]

\* setframerate stores int(framerate).
SetFramerate ==
    /\ UNCHANGED <<server, client>>
    /\ writer.pc = "open"
    /\ UNCHANGED <<op, arg, result, reader, file>>
    /\ \E framerate \in Framerates :
        writer' = [writer EXCEPT !.framerate = TruncDiv(framerate[1], framerate[2])]

WriteFrames ==
    /\ UNCHANGED <<server, client>>
    /\ writer.pc = "open"
    /\ Len(writer.frames) < MaxWrites
    /\ UNCHANGED <<op, arg, result, reader, file>>
    /\ \E data \in FrameBuffers :
        writer' = [writer EXCEPT !.frames = Append(writer.frames, data)]

\* Aifc_write.close, on a writer that is open and again on one whose close
\* has returned or raised.
WriteClose ==
    /\ UNCHANGED <<server, client>>
    /\ writer.pc # "none"
    /\ file.closed \/ Len(file.data) <= MaxStream
    /\ UNCHANGED <<op, arg, result, reader>>
    /\ writer' = Aifc_write_close(writer, file).writer
    /\ file' = Aifc_write_close(writer, file).file

\* Aifc_read on the bytes a close has written: a new stream that holds the
\* container, the cursor at its start.
ReadWritten ==
    /\ UNCHANGED <<server, client>>
    /\ writer.pc = "closed"
    /\ reader.pc = "none"
    /\ UNCHANGED <<op, arg, result, writer>>
    /\ reader' = parseheader_form(NewReader, Stream(Container(writer, file), 0)).reader
    /\ file' = parseheader_form(NewReader, Stream(Container(writer, file), 0)).file

\* open(filename, mode): the call, with the reader or the writer it
\* constructs for a stream.  result tells the constructor whose object the
\* call returns (the reader's parse then goes on in ReadChunk), the call of
\* open still to be made, or the exception raised; depth counts the calls
\* of open that have not returned.
OpenCall ==
    /\ UNCHANGED <<server, client>>
    /\ Idle
    /\ \E filename \in Filenames, mode \in Modes, d \in ReaderInputs, f \in WriterStreams :
        /\ op' = "open"
        /\ arg' = [NoArgs EXCEPT !.filename = filename, !.mode = mode, !.depth = 1]
        /\ result' = open(filename, mode)
        /\ IF open(filename, mode) = Ok("Aifc_read(filename)")
           THEN /\ reader' = parseheader_form(NewReader, Stream(d, 0)).reader
                /\ file' = parseheader_form(NewReader, Stream(d, 0)).file
                /\ writer' = writer
           ELSE IF open(filename, mode) = Ok("Aifc_write(filename)")
           THEN /\ writer' = NewWriter
                /\ file' = f
                /\ reader' = reader
           ELSE UNCHANGED <<file, reader, writer>>

\* The call of open that open makes for a path name: one more call that has
\* not returned, or RecursionError when the interpreter allows no more.
OpenNested ==
    /\ UNCHANGED <<server, client>>
    /\ op = "open"
    /\ result \in {Ok("open(filename, 'rb')"), Ok("open(filename, 'wb')")}
    /\ UNCHANGED <<op, file, reader, writer>>
    /\ IF arg.depth >= RecursionLimit
       THEN /\ result' = Raise("RecursionError", "maximum recursion depth exceeded")
            /\ arg' = arg
       ELSE /\ result' = open(arg.filename,
                              IF result = Ok("open(filename, 'rb')")
                              THEN <<"r", "b">> ELSE <<"w", "b">>)
            /\ arg' = [arg EXCEPT !.depth = arg.depth + 1]

\* WebAudioTranscriber.add_audio_data, on a disk and a transcript that have
\* room.
AddAudioData ==
    /\ Unused
    /\ client = NewClient
    /\ UNCHANGED <<op, arg, result, file, reader, writer, client>>
    /\ \E tempfile \in TempfileOutcomes, transcription \in TranscriptionOutcomes,
          transcript_text \in Transcripts, timestamp \in Timestamps :
        /\ server' = add_audio_data(server, tempfile, transcription, transcript_text,
                                    timestamp)
        /\ Cardinality(server'.temp_files) <= MaxTempFiles
        /\ Len(server'.transcript_data) <= MaxTranscript

\* The Connect / Disconnect button.
ToggleConnection ==
    /\ Unused
    /\ server = NewServer
    /\ UNCHANGED <<op, arg, result, file, reader, writer, server>>
    /\ \E server_accepts \in BOOLEAN, device_text \in DeviceTexts,
          pyaudio \in PyaudioOutcomes :
        /\ client' = toggle_connection(client, server_accepts, device_text, pyaudio)
        /\ Len(client'.events) <= MaxEvents

\* The server, or the network, ends the connection.
ServerDisconnects ==
    /\ Unused
    /\ server = NewServer
    /\ UNCHANGED <<op, arg, result, file, reader, writer, server>>
    /\ client.sio
    /\ client' = sio_disconnect(client)
    /\ Len(client'.events) <= MaxEvents

\* The main thread runs the callback window.after queued first.
MainLoopEvent ==
    /\ Unused
    /\ server = NewServer
    /\ UNCHANGED <<op, arg, result, file, reader, writer, server>>
    /\ client.events # <<>>
    /\ client' = [(IF Head(client.events) = "_on_connected"
                   THEN on_connected(client) ELSE on_disconnected(client))
                  EXCEPT !.events = Tail(client.events)]

\* The Start Recording / Stop Recording button.
ToggleRecording ==
    /\ Unused
    /\ server = NewServer
    /\ UNCHANGED <<op, arg, result, file, reader, writer, server>>
    /\ \E device_text \in DeviceTexts, pyaudio \in PyaudioOutcomes :
        client' = toggle_recording(client, device_text, pyaudio)

\* A stream that was started delivers a chunk.
AudioCallback ==
    /\ Unused
    /\ server = NewServer
    /\ UNCHANGED <<op, arg, result, file, reader, writer, server>>
    /\ client.stream = "started"
    /\ Len(client.audio_queue) < MaxQueue
    /\ \E in_data \in AudioChunks : client' = audio_callback(client, in_data)

\* One turn of the audio processing thread.
AudioProcessingLoop ==
    /\ Unused
    /\ server = NewServer
    /\ UNCHANGED <<op, arg, result, file, reader, writer, server>>
    /\ client' = audio_processing_loop(client)

\* The desktop client alone.
NextClient ==
    \/ ToggleConnection
    \/ ServerDisconnects
    \/ MainLoopEvent
    \/ ToggleRecording
    \/ AudioCallback
    \/ AudioProcessingLoop

SpecClient == Init /\ [][NextClient]_vars

\* A socket connects: the framework gives it a session without a
\* session_id (no route of the application stores one) and calls
\* handle_connect.
Connect ==
    /\ Unused
    /\ client = NewClient
    /\ UNCHANGED <<op, arg, result, file, reader, writer, client>>
    /\ \E sid \in Sids :
        /\ server.session[sid] = None
        /\ server' = handle_connect(
               [Handling(server, "connect", sid)
                   EXCEPT !.connected = @ \cup {sid}], sid)

\* A connected socket disconnects.
Disconnect ==
    /\ Unused
    /\ client = NewClient
    /\ UNCHANGED <<op, arg, result, file, reader, writer, client>>
    /\ \E sid \in server.connected :
        server' = handle_disconnect(
            [Handling(server, "disconnect", sid) EXCEPT !.connected = @ \ {sid}], sid)

\* An audio_data event of a socket is handled: of one that is connected, of
\* one that has disconnected since it sent the event, or of one whose
\* connect has not been handled yet.
AudioData ==
    /\ Unused
    /\ client = NewClient
    /\ UNCHANGED <<op, arg, result, file, reader, writer, client>>
    /\ \E sid \in Sids, audio \in AudioFields, outcome \in AudioOutcomes :
        /\ server' = handle_audio_data(Handling(server, "audio_data", sid), sid, audio,
                                       outcome.tempfile, outcome.transcription,
                                       outcome.transcript_text, HandlerTime)
        /\ Cardinality(server'.temp_files) <= MaxTempFiles
        /\ \A k \in Sids :
               Len(server'.active_transcribers.transcript_data[k]) <= MaxTranscript

\* A clear_transcript event of a socket is handled.
ClearTranscript ==
    /\ Unused
    /\ client = NewClient
    /\ UNCHANGED <<op, arg, result, file, reader, writer, client>>
    /\ \E sid \in Sids :
        server' = handle_clear_transcript(Handling(server, "clear_transcript", sid), sid)

\* The socket handlers of the web application.
NextServer ==
    \/ Connect
    \/ Disconnect
    \/ AudioData
    \/ ClearTranscript

SpecServer == Init /\ [][NextServer]_vars

\* The reader alone.
NextReader ==
    \/ ReadOpen
    \/ ReadChunk
    \/ ReadClose

SpecReader == Init /\ [][NextReader]_vars

\* The reader with its loop running on: _parseheader is one call, whose
\* loop takes its next turn as long as it has not returned or raised.
SpecReaderRuns == SpecReader /\ WF_vars(ReadChunk)

\* The writer alone.
NextWriter ==
    \/ WriteOpen
    \/ SetNchannels
    \/ SetSampwidth
    \/ SetFramerate
    \/ WriteFrames
    \/ WriteClose

SpecWriter == Init /\ [][NextWriter]_vars

\* The reader and the writer.
SpecAifc == Init /\ [][NextReader \/ NextWriter]_vars

Next ==
    \/ CallGetSamples
    \/ CallSamplesToBytes
    \/ DecodeEncoded
    \/ CallRms
    \/ CallAdd
    \/ CallBias
    \/ CallByteswap
    \/ SwapAgain
    \/ CallTomono
    \/ CallRatecv
    \/ CallLin2lin
    \/ NextReader
    \/ NextWriter
    \/ ReadWritten
    \/ OpenCall
    \/ OpenNested
    \/ AddAudioData
    \/ NextClient
    \/ NextServer

Spec == Init /\ [][Next]_vars

\* The transcriber of the web application alone.
SpecTranscriber == Init /\ [][AddAudioData]_vars

\* open, with the parse of the reader it constructs.
NextOpen ==
    \/ OpenCall
    \/ OpenNested
    \/ ReadChunk

SpecOpen == Init /\ [][NextOpen]_vars

\* A container is written, then read back.
NextRoundTrip ==
    \/ NextWriter
    \/ ReadWritten
    \/ ReadChunk

SpecRoundTrip == Init /\ [][NextRoundTrip]_vars

\* The codec alone: encode, decode, and the decode of an encode.
NextCodec ==
    \/ CallGetSamples
    \/ CallSamplesToBytes
    \/ DecodeEncoded

SpecCodec == Init /\ [][NextCodec]_vars

\* The rate conversion alone.
SpecRatecv == Init /\ [][CallRatecv]_vars

\* The sample-wise sum alone.
SpecAdd == Init /\ [][CallAdd]_vars

\* The byte swap alone, once and twice.
SpecByteswap == Init /\ [][CallByteswap \/ SwapAgain]_vars

\* The root mean square alone.
SpecRms == Init /\ [][CallRms]_vars

\* The width conversion alone.
SpecLin2lin == Init /\ [][CallLin2lin]_vars

\* The stereo downmix alone.
SpecTomono == Init /\ [][CallTomono]_vars

(***************************************************************************)
(* The claims.  Helpers first: the supported widths, the operations the    *)
(* claims call PCM operations, and the signed samples a buffer holds.      *)
(***************************************************************************)
SupportedWidths == {1, 2, 4}

PcmOps == {"rms", "add", "bias", "byteswap", "tomono", "lin2lin", "ratecv"}

SampleMin(width) == IF width = 1 THEN -128 ELSE IF width = 2 THEN Int16Min ELSE Int32Min

SampleMax(width) == IF width = 1 THEN 127 ELSE IF width = 2 THEN Int16Max ELSE Int32Max

InRange(samples, width) ==
    \A k \in 1..Len(samples) :
        samples[k] >= SampleMin(width) /\ samples[k] <= SampleMax(width)

\* The sign-corrected samples of a buffer of whole samples.
Decoded(data, width) == Unbias(get_samples(data, width).val, width)

\* A decode of the bytes an encode made of in-range samples.
RoundTripDone ==
    /\ op = "_get_samples"
    /\ arg.fed
    /\ arg.width \in SupportedWidths
    /\ InRange(arg.samples, arg.width)

\* C1 as stated: for every width in {1,2,4} and every sample sequence S
\* within the range of the width, decode(encode(S, w), w) = S.
C1_RoundTrip == RoundTripDone => result = Ok(arg.samples)

\* C1 amended: at widths 2 and 4 the round trip returns S; at width 1 it
\* returns S with 128 added to every sample, the unsigned bytes encode stored.
C1_RoundTripBiased ==
    RoundTripDone =>
        result = Ok([k \in 1..Len(arg.samples) |->
                        IF arg.width = 1 THEN arg.samples[k] + 128
                        ELSE arg.samples[k]])

C1_Witness ==
    /\ RoundTripDone
    /\ arg.width = 1
    /\ arg.samples = <<-128, 127>>
    /\ result = Ok(<<0, 255>>)

\* C2 as stated: for a width in {1,2,4} and a buffer whose length is not a
\* multiple of the width, decode does not fail and returns the
\* floor(len / width) leading complete samples, ignoring the trailing bytes.
C2_DecodeTruncates ==
    (/\ op = "_get_samples"
     /\ arg.width \in SupportedWidths
     /\ Len(arg.data) % arg.width # 0)
    => /\ result.exc = "none"
       /\ result.val =
              get_samples(SubSeq(arg.data, 1,
                                 (Len(arg.data) \div arg.width) * arg.width),
                          arg.width).val

\* C3 as stated: every PCM operation called with a width outside {1,2,4}
\* fails with the unsupported-width error, also on the empty buffer and,
\* for lin2lin, also when the two widths are equal.
C3_UnsupportedWidthFails ==
    (/\ op \in PcmOps
     /\ \/ arg.width \notin SupportedWidths
        \/ op = "lin2lin" /\ arg.new_width \notin SupportedWidths)
    => result = Raise("audioop.error", UnsupportedWidthMsg)

\* C4 as stated: no PCM operation, for any buffer and any integer width,
\* ends with a failure other than audioop.error.
C4_OnlyAudioopErrors ==
    op \in PcmOps => result.exc \in {"none", "audioop.error"}

\* A ratecv call with equal rates.
EqualRates == op = "ratecv" /\ arg.inrate = arg.outrate

\* C5 as stated: with inRate = outRate, ratecv returns (data, state)
\* unchanged, the state being the very value passed in, None included.
C5_PairUnchanged == EqualRates => result = Ok(<<arg.data, arg.state>>)

\* C5 amended: with inRate = outRate, ratecv returns the input buffer
\* unchanged, with the state passed in when it is not None and with a new
\* empty dict when it is None.
C5_DataUnchanged ==
    EqualRates =>
        result = Ok(<<arg.data, IF arg.state = None THEN EmptyDict ELSE arg.state>>)

C5_Witness ==
    /\ EqualRates
    /\ arg.state = None
    /\ arg.width = 2
    /\ arg.data = <<0, 128, 255>>
    /\ result = Ok(<<arg.data, EmptyDict>>)

\* A ratecv call that converted a whole number of frames of a supported
\* width between two different rates.
Resampled ==
    /\ op = "ratecv"
    /\ arg.inrate # arg.outrate
    /\ arg.width \in SupportedWidths
    /\ Len(arg.data) % (arg.width * arg.nchannels) = 0
    /\ result.exc = "none"

\* The input and output samples of such a call, and the input frame count.
InSamples == Decoded(arg.data, arg.width)

OutSamples == Decoded(result.val[1], arg.width)

InFrames == Len(InSamples) \div arg.nchannels

\* Output sample j (1-based) is channel ChannelOf(j) of output frame
\* FrameOf(j), whose source position is p = FrameOf(j) * inrate / outrate:
\* floor(p) is SourceFrame(j) and p - floor(p) is SourceRem(j) / outrate.
FrameOf(j) == (j - 1) \div arg.nchannels

ChannelOf(j) == (j - 1) % arg.nchannels

SourceFrame(j) == (FrameOf(j) * arg.inrate) \div arg.outrate

SourceRem(j) == (FrameOf(j) * arg.inrate) % arg.outrate

\* Channel c (0-based) of input frame f (0-based).
InSample(f, c) == InSamples[f * arg.nchannels + c + 1]

\* C6 as stated: channel c of output frame k is computed from channel c of
\* the input only; when input frame floor(p) + 1 exists it is
\* trunc(a + f * (b - a)), a and b being channel c of input frames floor(p)
\* and floor(p) + 1.
C6_PerChannelInterpolation ==
    Resampled =>
        \A j \in 1..Len(OutSamples) :
            SourceFrame(j) + 1 < InFrames =>
                OutSamples[j] =
                    TruncDiv(InSample(SourceFrame(j), ChannelOf(j)) * arg.outrate
                             + SourceRem(j) * (InSample(SourceFrame(j) + 1, ChannelOf(j))
                                               - InSample(SourceFrame(j), ChannelOf(j))),
                             arg.outrate)

\* C7 as stated: the output holds exactly
\* floor(inputFrameCount * outRate / inRate) frames of nchannels samples.
C7_OutputFrameCount ==
    Resampled =>
        Len(OutSamples) = ((InFrames * arg.outrate) \div arg.inrate) * arg.nchannels

\* C8 as stated: for an output frame whose source position falls in the last
\* input frame, channel c of the output is the last input sample of
\* channel c.
C8_TailRepeatsChannel ==
    (Resampled /\ InFrames >= 1) =>
        \A j \in 1..Len(OutSamples) :
            SourceFrame(j) >= InFrames - 1 =>
                OutSamples[j] = InSample(InFrames - 1, ChannelOf(j))

\* A tomono call on a stereo buffer of whole frames of a supported width.
Downmixed ==
    /\ op = "tomono"
    /\ arg.width \in SupportedWidths
    /\ Len(arg.data) % (2 * arg.width) = 0

\* L * gainLeft + R * gainRight of frame k (1-based) of the input.
MixSum(k) ==
    Decoded(arg.data, arg.width)[2 * k - 1] * arg.left_gain
        + Decoded(arg.data, arg.width)[2 * k] * arg.right_gain

\* round(x / 2), ties to even.
RoundHalf(x) ==
    IF x % 2 = 0 THEN x \div 2
    ELSE IF ((x - 1) \div 2) % 2 = 0 THEN (x - 1) \div 2
    ELSE (x - 1) \div 2 + 1

\* C9 as stated: tomono returns len / 2 bytes in which frame k is the
\* saturated value of round((L * gainLeft + R * gainRight) / 2).
C9_DownmixRounds ==
    Downmixed =>
        /\ result.exc = "none"
        /\ Len(result.val) = Len(arg.data) \div 2
        /\ \A k \in 1..(Len(arg.data) \div (2 * arg.width)) :
               Decoded(result.val, arg.width)[k] =
                   Clamp(SampleMin(arg.width), SampleMax(arg.width), RoundHalf(MixSum(k)))

\* C9 amended: frame k is the saturated value of
\* (L * gainLeft + R * gainRight) / 2 truncated toward zero.
C9_DownmixTruncates ==
    Downmixed =>
        /\ result.exc = "none"
        /\ Len(result.val) = Len(arg.data) \div 2
        /\ \A k \in 1..(Len(arg.data) \div (2 * arg.width)) :
               Decoded(result.val, arg.width)[k] =
                   Clamp(SampleMin(arg.width), SampleMax(arg.width), TruncDiv(MixSum(k), 2))

C9_Witness ==
    /\ Downmixed
    /\ arg.width = 1
    /\ arg.data = <<255, 128>>
    /\ arg.left_gain = 1
    /\ arg.right_gain = 1
    /\ result = Ok(<<191>>)

\* Every sample of the buffer is zero after sign correction.
Silent(data, width) ==
    \A k \in 1..(Len(data) \div width) : Decoded(data, width)[k] = 0

\* C10: for every pair of gains, tomono fails with the stereo-format error on
\* every buffer whose length is not divisible by 2 * width, and at every
\* supported width it returns exact silence, half as long, on exact silence.
C10_SilenceAndFormat ==
    (op = "tomono" /\ arg.width > 0) =>
        IF Len(arg.data) % (2 * arg.width) # 0
        THEN result = Raise("audioop.error", StereoLengthMsg)
        ELSE (arg.width \in SupportedWidths /\ Silent(arg.data, arg.width)) =>
                 /\ result.exc = "none"
                 /\ Len(result.val) = Len(arg.data) \div 2
                 /\ Silent(result.val, arg.width)

C10_Witness ==
    /\ Downmixed
    /\ arg.width = 1
    /\ arg.data = <<128, 128, 128, 128>>
    /\ arg.left_gain = 2
    /\ arg.right_gain = -1
    /\ result = Ok(<<128, 128>>)

\* The buffer holds whole samples of the width.
Aligned(data, width) == Len(data) % width = 0

\* An add of two buffers of whole samples of a supported width.
Added ==
    /\ op = "add"
    /\ arg.width \in SupportedWidths
    /\ Aligned(arg.data, arg.width)
    /\ Aligned(arg.data2, arg.width)

\* C11: for a width in {1,2,4} and sample-aligned buffers A and B, add
\* returns min(samples(A), samples(B)) samples, sample i being the
\* sign-corrected sum A[i] + B[i] saturated to the signed range of the width;
\* the tail of the longer buffer is discarded without error.
C11_AddSaturates ==
    Added =>
        /\ result.exc = "none"
        /\ Len(result.val) = Min(Len(arg.data), Len(arg.data2))
        /\ \A i \in 1..(Len(result.val) \div arg.width) :
               Decoded(result.val, arg.width)[i] =
                   Clamp(SampleMin(arg.width), SampleMax(arg.width),
                         Decoded(arg.data, arg.width)[i]
                             + Decoded(arg.data2, arg.width)[i])

C11_Witness ==
    /\ Added
    /\ arg.width = 1
    /\ arg.data = <<255, 255, 0>>
    /\ arg.data2 = <<255, 0>>
    /\ result = Ok(<<255, 127>>)

\* C12: byteswap applied twice at width 2 or 4 returns the buffer it started
\* from, byteswap at width 1 returns its input, and the output of byteswap
\* is as long as its input.
C12_ByteswapInvolution ==
    (op = "byteswap" /\ arg.width \in SupportedWidths) =>
        /\ result.exc = "none"
        /\ Len(result.val) = Len(arg.data)
        /\ (arg.fed \/ arg.width = 1) => result.val = arg.data

C12_Witness ==
    /\ op = "byteswap"
    /\ arg.fed
    /\ arg.width = 2
    /\ arg.data = <<0, 128, 255>>
    /\ result = Ok(<<0, 128, 255>>)

\* n * r * r for a natural number r, of any size.
TimesSquare(n, r) == BMulSmall(BMul(BFromNat(r), BFromNat(r)), n)

\* The sum of the squares of the sign-corrected samples rms was given.
RmsSum ==
    SumSquares(Decoded(arg.data, arg.width), Len(arg.data) \div arg.width)

\* C13 as stated: rms of the empty buffer is 0 at every valid width, and for
\* every non-empty buffer of n whole samples the result r is the integer
\* floor of the root mean square: r * r <= (sum of squares) / n < (r + 1)^2.
C13_RmsIsFloor ==
    (op = "rms" /\ arg.width \in SupportedWidths /\ Aligned(arg.data, arg.width)) =>
        /\ result.exc = "none"
        /\ IF Len(arg.data) = 0 THEN result.val = 0
           ELSE /\ result.val >= 0
                /\ BCmp(TimesSquare(Len(arg.data) \div arg.width, result.val),
                        RmsSum) <= 0
                /\ BCmp(RmsSum,
                        TimesSquare(Len(arg.data) \div arg.width, result.val + 1)) < 0

\* A lin2lin call between supported widths on a buffer of whole samples.
Converted ==
    /\ op = "lin2lin"
    /\ arg.width \in SupportedWidths
    /\ arg.new_width \in SupportedWidths
    /\ Aligned(arg.data, arg.width)

\* s * 2^(8 * (toWidth - fromWidth)) truncated toward zero.
Rescaled(s, fromWidth, toWidth) ==
    IF toWidth >= fromWidth THEN s * Pow2(8 * (toWidth - fromWidth))
    ELSE IF s >= 0 THEN s \div Pow2(8 * (fromWidth - toWidth))
    ELSE 0 - ((0 - s) \div Pow2(8 * (fromWidth - toWidth)))

\* C14: between widths in {1,2,4}, lin2lin keeps the sample count and maps
\* each sign-corrected sample s to s * 2^(8 * (toWidth - fromWidth))
\* truncated toward zero and saturated, re-biased by 128 at width 1; with
\* equal widths it returns its input unchanged.
C14_Lin2linScales ==
    Converted =>
        /\ result.exc = "none"
        /\ Len(result.val) = (Len(arg.data) \div arg.width) * arg.new_width
        /\ arg.width = arg.new_width => result.val = arg.data
        /\ \A i \in 1..(Len(arg.data) \div arg.width) :
               Decoded(result.val, arg.new_width)[i] =
                   Clamp(SampleMin(arg.new_width), SampleMax(arg.new_width),
                         Rescaled(Decoded(arg.data, arg.width)[i],
                                  arg.width, arg.new_width))

C14_Witness ==
    /\ Converted
    /\ arg.width = 2
    /\ arg.new_width = 1
    /\ arg.data = <<255, 255>>
    /\ result = Ok(<<128>>)

\* The first bytes of the input, up to four, are not FORM, or its bytes at
\* offsets 8 to 11 are neither AIFF nor AIFC.
BadMagic(data) ==
    \/ SubSeq(data, 1, Min(4, Len(data))) # FORM
    \/ Len(data) < 12
    \/ SubSeq(data, 9, 12) \notin {AIFF, AIFC}

\* C15: constructing a reader on an input whose first four bytes are not
\* FORM (an empty or shorter input included) or whose form type is neither
\* AIFF nor AIFC fails with the not-an-AIFF-file error before any chunk
\* header is read.
C15_BadMagicFails ==
    (reader.pc # "none" /\ BadMagic(file.data)) =>
        /\ reader.pc = "failed"
        /\ reader.error = NotAiffMsg
        /\ file.pos <= 12

C15_Witness ==
    /\ reader.pc = "failed"
    /\ reader.error = NotAiffMsg
    /\ file.data = FORM \o <<0, 0, 0, 4>> \o <<87, 65, 86, 69>>
    /\ file.pos = 12

\* The chunks of the input from offset at on, as the format lays them out:
\* the input ends inside a chunk id, a chunk size, or the 18 fixed bytes of
\* the first COMM chunk.
RECURSIVE EndsInField(_, _)
EndsInField(data, at) ==
    IF Len(data) = at THEN FALSE
    ELSE IF Len(data) - at < 8 THEN TRUE
    ELSE IF SubSeq(data, at + 1, at + 4) = COMM THEN Len(data) - at < 8 + 18
    ELSE LET size == BigEndian(SubSeq(data, at + 5, at + 8))
         IN  IF at + 8 + size + (size % 2) > Len(data) THEN FALSE
             ELSE EndsInField(data, at + 8 + size + (size % 2))

\* C16 as stated: with valid magic, an input that ends inside a fixed field
\* (a chunk id, a chunk size, or any of the 18 fixed bytes of COMM, the
\* 10-byte sample rate included) makes the construction of the reader fail
\* with the invalid-AIFF-file error.
C16_TruncatedFieldFails ==
    (/\ reader.pc \in {"done", "failed"}
     /\ ~BadMagic(file.data)
     /\ EndsInField(file.data, 12))
    => (reader.pc = "failed" /\ reader.error = InvalidAiffMsg)

\* The offset of the first COMM chunk of an input whose chunks before it are
\* whole (an odd body followed by its pad byte) and whose COMM chunk has
\* its 18 fixed bytes; -1 when the input is not of that form.
RECURSIVE FirstComm(_, _)
FirstComm(data, at) ==
    IF Len(data) - at < 8 THEN -1
    ELSE IF SubSeq(data, at + 1, at + 4) = COMM
    THEN IF Len(data) - at >= 8 + 18 THEN at ELSE -1
    ELSE LET size == BigEndian(SubSeq(data, at + 5, at + 8))
         IN  IF at + 8 + size + (size % 2) > Len(data) THEN -1
             ELSE FirstComm(data, at + 8 + size + (size % 2))

\* The big-endian field of the given length at an offset of the input.
FieldAt(data, at, length) == BigEndian(SubSeq(data, at + 1, at + length))

\* The reader finished on a file of valid magic that has a first COMM chunk.
ParsedComm ==
    /\ reader.pc \in {"done", "failed"}
    /\ ~BadMagic(file.data)
    /\ FirstComm(file.data, 12) >= 0

\* The reader reports the fields of the first COMM chunk.
ReportsFirstComm ==
    ParsedComm =>
        /\ reader.pc = "done"
        /\ reader.nchannels = FieldAt(file.data, FirstComm(file.data, 12) + 8, 2)
        /\ reader.nframes = FieldAt(file.data, FirstComm(file.data, 12) + 10, 4)
        /\ reader.sampwidth = FieldAt(file.data, FirstComm(file.data, 12) + 14, 2) \div 8

\* A turn of the chunk loop that skips a whole chunk moves the cursor by
\* 8 + size + (size mod 2).
SkipAdvances ==
    (/\ reader.pc = "chunks"
     /\ reader'.pc = "chunks"
     /\ file.pos + 8 + FieldAt(file.data, file.pos + 4, 4)
            + (FieldAt(file.data, file.pos + 4, 4) % 2) <= Len(file.data))
    => file'.pos = file.pos + 8 + FieldAt(file.data, file.pos + 4, 4)
                       + (FieldAt(file.data, file.pos + 4, 4) % 2)

\* C17: on a file of valid magic in which whole chunks that are not COMM,
\* of even or odd size, come before the first COMM chunk, the reader
\* reports the channel count, the frame count and the sample width (bit
\* count div 8) of that COMM chunk, and each chunk it skips advances the
\* cursor by exactly 8 + size + (size mod 2) bytes.
C17_SkipsToFirstComm == []ReportsFirstComm /\ [][SkipAdvances]_vars

C17_Witness ==
    /\ reader.pc = "done"
    /\ file.data = FORM \o <<0, 0, 0, 48>> \o AIFF \o Chunk(ABCD, <<1, 2, 3>>)
                        \o CommChunk(2, 5, 16, <<>>) \o Chunk(SSND, <<0, 0>>)
    /\ file.pos = 50
    /\ reader.nchannels = 2
    /\ reader.nframes = 5
    /\ reader.sampwidth = 2

\* C18 as stated: on every exit path of the reader's parse (success or
\* either error) and of the writer's close (success or failure), the
\* file-like handle given to the codec is left closed.
C18_HandleLeftClosed ==
    (reader.pc \in {"done", "failed"} \/ writer.pc \in {"closed", "failed"})
        => file.closed

\* The container close leaves in a stream that was empty: FORM, the size,
\* AIFF; COMM of size 18 with its three counts (and the ten bytes of the
\* sample rate); SSND of size payload + 8, eight zero bytes, the payload;
\* the cursor at the end.
ContainerOf(w, f) ==
    /\ Len(f.data) = 54 + Len(Payload(w))
    /\ f.pos = Len(f.data)
    /\ SubSeq(f.data, 1, 4) = FORM
    /\ FieldAt(f.data, 4, 4) = f.pos - 8
    /\ SubSeq(f.data, 9, 12) = AIFF
    /\ SubSeq(f.data, 13, 16) = COMM
    /\ FieldAt(f.data, 16, 4) = 18
    /\ FieldAt(f.data, 20, 2) = w.nchannels
    /\ FieldAt(f.data, 22, 4) = Len(Payload(w)) \div (w.nchannels * w.sampwidth)
    /\ FieldAt(f.data, 26, 2) = w.sampwidth * 8
    /\ SubSeq(f.data, 39, 42) = SSND
    /\ FieldAt(f.data, 42, 4) = Len(Payload(w)) + 8
    /\ SubSeq(f.data, 47, 54) = <<0, 0, 0, 0, 0, 0, 0, 0>>
    /\ SubSeq(f.data, 55, Len(f.data)) = Payload(w)

\* C19: a close that succeeds on a stream that started empty at position 0
\* leaves in it, in order, FORM, the big-endian size finalPosition - 8,
\* AIFF, a COMM chunk of size 18 with the channel count, the frame count
\* floor(totalBytes / (channels * width)) and width * 8 bits, and an SSND
\* chunk of size payloadLength + 8 with eight zero bytes and the payload,
\* the cursor being left at the end.
C19_ContainerLayout ==
    [][(/\ writer.pc = "open"
        /\ writer'.pc = "closed"
        /\ file = Stream(<<>>, 0))
       => ContainerOf(writer', file')]_vars

C19_Witness ==
    /\ writer.pc = "closed"
    /\ writer.nchannels = 2
    /\ writer.sampwidth = 1
    /\ writer.frames = <<<<1, 2, 3, 4>>, <<1>>>>
    /\ file.pos = 59
    /\ file.data = FORM \o <<0, 0, 0, 51>> \o AIFF
                        \o COMM \o <<0, 0, 0, 18, 0, 2, 0, 0, 0, 2, 0, 8>>
                        \o <<64, 14, 0, 0, 0, 5, 98, 32, 0, 0>>
                        \o SSND \o <<0, 0, 0, 13, 0, 0, 0, 0, 0, 0, 0, 0>>
                        \o <<1, 2, 3, 4, 1>>

\* C20: every chunk the writer emits is padded to an even byte boundary, so
\* the container a close leaves in a stream that started empty has an even
\* total length.
C20_EvenLength ==
    [][(/\ writer.pc = "open"
        /\ writer'.pc = "closed"
        /\ file = Stream(<<>>, 0))
       => Len(file'.data) % 2 = 0]_vars

\* The ten bytes of the sample rate in that container.
RateField(w, f) ==
    SubSeq(f.data, ContainerStart(w, f) + 29, ContainerStart(w, f) + 38)

\* The natural number big-endian bytes hold, as limbs.
RECURSIVE BFromBytes(_)
BFromBytes(b) ==
    IF b = <<>> THEN <<>>
    ELSE BAdd(BMulSmall(BFromBytes(SubSeq(b, 1, Len(b) - 1)), 256),
              BFromNat(b[Len(b)]))

\* Ten bytes read as an 80-bit extended number (sign bit, 15-bit exponent,
\* 64-bit mantissa with an explicit integer bit) have the value v >= 0:
\* the number is mantissa * 2^(exponent - 16383 - 63).
ExtendedIs(b, v) ==
    LET exponent == (b[1] % 128) * 256 + b[2]
        mantissa == BFromBytes(SubSeq(b, 3, 10))
        scale    == exponent - 16383 - 63
    IN  /\ b[1] < 128 \/ v = 0
        /\ IF scale >= 0 THEN BShl(mantissa, scale) = BFromNat(v)
           ELSE mantissa = BShl(BFromNat(v), 0 - scale)

\* C21: for every integral frame rate from 8000 to 48000 Hz set on the
\* writer, the ten bytes of the rate field of the COMM chunk a close writes,
\* read as an 80-bit extended number, have exactly the value of that rate.
C21_RateFieldIsFramerate ==
    (writer.pc = "closed" /\ writer.framerate \in 8000..48000)
        => ExtendedIs(RateField(writer, file), writer.framerate)

\* C22: for every channel count from 1 to 65535, width 1, 2 or 4, frame
\* rate and sequence of appended buffers, the reader parses the bytes the
\* close wrote without failing and reports the writer's channel count, its
\* width and the frame count floor(totalBytes / (channels * width)).
C22_ContainerRoundTrip ==
    (writer.pc = "closed" /\ reader.pc # "none") =>
        /\ reader.pc # "failed"
        /\ reader.pc = "done" =>
            /\ reader.nchannels = writer.nchannels
            /\ reader.sampwidth = writer.sampwidth
            /\ reader.nframes = Len(Payload(writer))
                                    \div (writer.nchannels * writer.sampwidth)

C22_Witness ==
    /\ writer.pc = "closed"
    /\ reader.pc = "done"
    /\ writer.nchannels = 1
    /\ writer.sampwidth = 2
    /\ writer.framerate = 8000
    /\ Payload(writer) = <<1, 2, 3, 4, 1, 2>>
    /\ reader.nframes = 3

\* The buffers of a list one after the other, the first appended first.
RECURSIVE InCallOrder(_)
InCallOrder(buffers) ==
    IF buffers = <<>> THEN <<>>
    ELSE InCallOrder(SubSeq(buffers, 1, Len(buffers) - 1)) \o buffers[Len(buffers)]

\* A step of a writer that stays open leaves the stream as it was.
OpenWriterKeepsStream ==
    (writer.pc = "open" /\ writer'.pc = "open") => file' = file

\* The close that returns ends the stream with an SSND chunk whose body,
\* after the eight zero bytes, is the appended buffers in call order.
CloseEmitsPayload ==
    (writer.pc = "open" /\ writer'.pc = "closed") =>
        LET payload == InCallOrder(writer.frames)
            start   == file'.pos - Len(payload)
        IN  /\ Len(file'.data) = file'.pos
            /\ Len(file'.data) > Len(file.data)
            /\ SubSeq(file'.data, start - 15, start - 12) = SSND
            /\ SubSeq(file'.data, start + 1, file'.pos) = payload

\* C23: before the close no operation of the writer (setting the channel
\* count, the width or the rate, appending frames) writes to the stream or
\* moves its cursor; the close is the only step that emits bytes, and the
\* SSND payload it emits is the concatenation of the appended buffers in
\* call order, whatever the interleaving of the set and append calls.
C23_OnlyCloseWrites == [][OpenWriterKeepsStream /\ CloseEmitsPayload]_vars

C23_Witness ==
    /\ writer.pc = "closed"
    /\ writer.nchannels = 2
    /\ writer.framerate = 8000
    /\ writer.frames = <<<<1>>, <<1, 2>>>>
    /\ SubSeq(file.data, Len(file.data) - 18, Len(file.data))
           = SSND \o <<0, 0, 0, 11, 0, 0, 0, 0, 0, 0, 0, 0, 1, 1, 2>>

\* C24: every reader that was constructed without an error, from any input,
\* reports a channel count of at least 1, a sample width of 1, 2 or 4, a
\* positive frame rate and a frame count of at least 0.
C24_DescriptorIsValid ==
    reader.pc = "done" =>
        /\ reader.nchannels >= 1
        /\ reader.sampwidth \in {1, 2, 4}
        /\ reader.framerate > 0
        /\ reader.nframes >= 0

\* The cursor position pos is a chunk boundary of the data: the walk from
\* the boundary at, over whole chunks that are not COMM, arrives at it.
RECURSIVE ChunkBoundary(_, _, _)
ChunkBoundary(data, at, pos) ==
    IF at = pos THEN TRUE
    ELSE IF at > pos \/ at + 8 > Len(data) THEN FALSE
    ELSE IF SubSeq(data, at + 1, at + 4) = COMM THEN FALSE
    ELSE ChunkBoundary(data, at + 8 + skip_size(FieldAt(data, at + 4, 4)), pos)

\* The parse has ended (it returned or it raised).
ParseEnded == reader.pc \in {"done", "failed"}

\* A loop turn entered with the input ending exactly at a chunk boundary
\* ends the parse without an error and leaves the fields as they were.
EndAtBoundary ==
    (/\ reader.pc = "chunks"
     /\ file.pos = Len(file.data)
     /\ ChunkBoundary(file.data, 12, file.pos))
        => reader' = [reader EXCEPT !.pc = "done"]

\* C25: with valid magic the chunk scan terminates on every finite input,
\* and the end of the input exactly at a chunk boundary, with or without an
\* SSND chunk before it, ends the parse without an error.
C25_ScanTerminates ==
    /\ (reader.pc = "chunks") ~> ParseEnded
    /\ [][EndAtBoundary]_vars

C25_Witness ==
    /\ reader.pc = "done"
    /\ reader.error = ""
    /\ file.data = FORM \o <<0, 0, 0, 0>> \o AIFF \o Chunk(ABCD, <<1, 2>>)
                        \o Chunk(SSND, <<7>>)
    /\ file.pos = 32

\* C26: the close is one-shot in effect: once a close has been called on a
\* writer, any further close leaves the contents of the stream unchanged.
C26_CloseIsOneShot ==
    [][writer.pc \in {"closed", "failed"} => file'.data = file.data]_vars

\* C27: the FORM size a close writes is the number of bytes of the container
\* after the size field (the length of the container minus 8), wherever in
\* the stream the writer began to write.
C27_FormSizeIsContainerLength ==
    writer.pc = "closed" =>
        FieldAt(file.data, ContainerStart(writer, file) + 4, 4)
            = Len(Container(writer, file)) - 8

\* C28: open given a path name and a mode that holds 'r' or 'w' raises
\* nothing (it returns a reader or a writer bound to an open handle on the
\* file), and given any other mode it raises ValueError.
C28_OpenReturns ==
    (op = "open" /\ arg.filename = "path") =>
        IF InMode("r", arg.mode) \/ InMode("w", arg.mode)
        THEN result.exc = "none"
        ELSE result.exc = "ValueError"

\* C29: every temporary file add_audio_data creates is deleted before the
\* call returns, whatever the outcome, so that no temporary file remains
\* after any sequence of audio_data events.
C29_NoTempFileRemains == server.temp_files = {}

\* C30: in every state any sequence of client actions and events reaches
\* (connect, disconnect, start and stop of the recording, starts that fail
\* in the open or in the start of the stream included), the AudioCapture is
\* recording only if the client is streaming.
C30_RecordingOnlyIfStreaming == client.is_recording => client.is_streaming

\* The sessions that have an entry in active_transcribers.
Registered == server.active_transcribers.keys

\* An entry is held for a socket's session exactly when the socket has
\* connected and has not disconnected.
EntryIffConnected == Registered = server.connected

\* What the last handler emitted as transcript_update went to sockets whose
\* session is registered.
UpdatesToRegistered ==
    \A i \in 1..Len(server.emitted) :
        server.emitted[i].event = "transcript_update"
            => server.session[server.emitted[i].to] \in Registered

\* An audio_data or clear_transcript event handled for a session that has
\* no entry emits nothing, changes no transcript and no entry.
UnregisteredEventIsIgnored ==
    (/\ server'.request.event \in {"audio_data", "clear_transcript"}
     /\ server.session[server'.request.sid] \notin Registered)
        => /\ server'.emitted = <<>>
           /\ server'.active_transcribers = server.active_transcribers
           /\ server'.temp_files = server.temp_files

=============================================================================
